---- MODULE Spec2Model ----
(***************************************************************************)
(* Model of the MQTT client of the Celix event-admin remote provider       *)
(* (celix_earpm_client.c): the fixed-capacity message pool, the admission  *)
(* watermarks, the waiting queue, the publishing and published maps, the   *)
(* synchronous publish protocol and the broker callbacks.                  *)
(*                                                                         *)
(* The pool's free list and the waiting queue are both intrusive TAILQ     *)
(* lists threaded through the same `entry` field of the message blocks,    *)
(* so they are modelled at pointer level: every TAILQ macro is the         *)
(* sequence of stores of <sys/queue.h>.  Message blocks live in one        *)
(* calloc'ed array for the life of the client, so a TAILQ_REMOVE of a      *)
(* block that is not on the list it names is a defined sequence of stores  *)
(* into that array and the list heads, and is modelled as exactly that.    *)
(***************************************************************************)
EXTENDS Integers, Sequences, FiniteSets, TLC

(* ------------------------------ bounds --------------------------------- *)
\* message queue capacity and parallel message capacity of the client of
\* Spec and SpecSync
PoolCap == 3
ParallelCap == 1
\* message queue capacity and parallel message capacity of the client of
\* SpecOrder
OrderPoolCap == 5
OrderParallelCap == 3
\* broker info services registered in SpecThread, and in SpecBroker
MaxBrokers == 1
NumBrokers == 2
\* failed connection attempts counted (the counter stays at this value)
MaxReconnect == 32
\* the hard maximum of the two capacities of a client, in blocks of the
\* model, and how far beyond the valid range the capacities given to create go
MaxQueueSize == 5
CapMargin == 2
\* number of threads that call publishSync
NumThreads == 2
\* messages created in one run (bounds the static sequence counter)
MaxSeq == 3
\* largest capacity for which the admission function is tabulated
MaxAdmitCap == 20

(* --------------------------- program constants ------------------------- *)
CELIX_EARPM_QOS_UNKNOWN == -1
CELIX_EARPM_MSG_QUEUE_MAX_SIZE == MaxQueueSize
CELIX_EARPMC_RECONNECT_DELAY_MAX == 30
CELIX_EARPM_QOS_AT_MOST_ONCE == 0
CELIX_EARPM_QOS_AT_LEAST_ONCE == 1
CELIX_EARPMC_MSG_PRI_LOW == 0
CELIX_EARPMC_MSG_PRI_MIDDLE == 1
CELIX_EARPMC_MSG_PRI_HIGH == 2
MQTT_RC_SUCCESS == 0
MQTT_RC_NO_MATCHING_SUBSCRIBERS == 16
MQTT_RC_UNSPECIFIED == 128

\* status codes, kept symbolic
CELIX_SUCCESS == "CELIX_SUCCESS"
CELIX_ILLEGAL_STATE == "CELIX_ILLEGAL_STATE"
CELIX_BUNDLE_EXCEPTION == "CELIX_BUNDLE_EXCEPTION"
StatusENOMEM == "ENOMEM"
StatusENOTCONN == "ENOTCONN"
StatusETIMEDOUT == "ETIMEDOUT"

(* ------------------------------ values --------------------------------- *)
\* the blocks of the msgBlocks array the model has room for; a client uses
\* the first pool.cap of them
MaxOf(a, b) == IF a > b THEN a ELSE b
MaxBlocks == MaxOf(MaxOf(PoolCap, OrderPoolCap), MaxQueueSize)
Slots == 1..MaxBlocks
Threads == 1..NumThreads
NULL == 0
\* addresses of the pointer cells a tqe_prev / tqh_last can hold: the
\* tqh_first of the pool's free list, the tqh_first of the waiting queue,
\* or (a slot number) the tqe_next of that message block
LocFree == -1
LocWait == -2
QosSet == {CELIX_EARPM_QOS_AT_MOST_ONCE, CELIX_EARPM_QOS_AT_LEAST_ONCE}
PriSet == {CELIX_EARPMC_MSG_PRI_LOW, CELIX_EARPMC_MSG_PRI_MIDDLE, CELIX_EARPMC_MSG_PRI_HIGH}
ReasonSet == {MQTT_RC_SUCCESS, MQTT_RC_NO_MATCHING_SUBSCRIBERS, MQTT_RC_UNSPECIFIED}
\* what a caller passes as (payload, payloadSize): no payload, or one byte
NoPayload == [data |-> <<>>, size |-> 0, null |-> TRUE]
OnePayload == [data |-> <<7>>, size |-> 1, null |-> FALSE]
PayloadSet == {NoPayload, OnePayload}

VARIABLES
    pool,          \* celix_earpmc_msg_pool_t: cap, usedSize, free list head
    msgs,          \* the msgBlocks array: slot -> celix_earpmc_msg_t
    waiting,       \* head of client->waitingMessages: first, last
    publishing,    \* client->publishingMessages: mid -> slot
    published,     \* client->publishedMessages: seqNr -> slot
    parallelMsgCap, \* client->parallelMsgCap
    subscriptions, \* client->subscriptions: topic -> qos
    connected,     \* client->connected
    running,       \* client->running
    nextSeqNr,     \* static long nextSeqNr of celix_earpmc_messageCreate
    lastMid,       \* the transport's message id counter
    unacked,       \* transport: mids published and not yet acknowledged
    wire,          \* what the last step handed to mosquitto_publish_v5, in order
    subWire,       \* the subscribe / unsubscribe calls the last step issued
    given,         \* slot -> the (payload, size) its publish call was given
    faults,        \* what has gone wrong in the client so far
    pc,            \* thread -> where it is in publishSync
    tmsg,          \* thread -> msg of its publishSync call
    targ,          \* thread -> arguments of its publishSync call in progress
    ret,           \* the publish call that returned in the last step, and its status
    destroyed,     \* celix_earpmc_destroy has run
    probe,         \* a question put to the admission function, and its answer
    mosq,          \* the network thread, the broker set, and destroy's progress
    opts           \* the capacities given to celix_earpmc_create, and what it returned

vars == <<pool, msgs, waiting, publishing, published, parallelMsgCap, subscriptions,
          connected, running, nextSeqNr, lastMid, unacked, wire, subWire, given,
          faults, pc, tmsg, targ, ret, destroyed, probe, mosq, opts>>

(* ------------------- the client as one value --------------------------- *)
\* The operators below are the C functions: each takes the client's state
\* as a record c and returns the state the function leaves.
Cur ==
    [cap |-> pool.cap, usedSize |-> pool.usedSize, ffirst |-> pool.first,
     flast |-> pool.last, parallelMsgCap |-> parallelMsgCap, m |-> msgs, wfirst |-> waiting.first, wlast |-> waiting.last,
     publishing |-> publishing, published |-> published,
     subscriptions |-> subscriptions, connected |-> connected,
     nextSeqNr |-> nextSeqNr, lastMid |-> lastMid, unacked |-> unacked,
     wire |-> <<>>, subWire |-> {}, given |-> given, faults |-> faults, bcast |-> FALSE]

MapPut(f, k, v) == [x \in (DOMAIN f) \cup {k} |-> IF x = k THEN v ELSE f[x]]
MapRemove(f, k) == [x \in (DOMAIN f) \ {k} |-> f[x]]
EmptyMap == [x \in {} |-> NULL]

(* --------------------- <sys/queue.h> TAILQ ----------------------------- *)
\* *loc
Deref(c, loc) ==
    IF loc = LocFree THEN c.ffirst
    ELSE IF loc = LocWait THEN c.wfirst
    ELSE c.m[loc].next

\* *loc = v
Store(c, loc, v) ==
    IF loc = LocFree THEN [c EXCEPT !.ffirst = v]
    ELSE IF loc = LocWait THEN [c EXCEPT !.wfirst = v]
    ELSE [c EXCEPT !.m[loc].next = v]

\* head->tqh_last
HeadLast(c, head) == IF head = LocFree THEN c.flast ELSE c.wlast

\* head->tqh_last = loc
SetHeadLast(c, head, loc) ==
    IF head = LocFree THEN [c EXCEPT !.flast = loc] ELSE [c EXCEPT !.wlast = loc]

\* ((struct headname*)loc)->tqh_last: the pointer cell that follows *loc,
\* which is tqh_last of a head and tqe_prev of a message block
CellAfter(c, loc) ==
    IF loc = LocFree THEN c.flast
    ELSE IF loc = LocWait THEN c.wlast
    ELSE c.m[loc].prev

TAILQ_FIRST(c, head) == Deref(c, head)
TAILQ_NEXT(c, elm) == c.m[elm].next
TAILQ_LAST(c, head) == Deref(c, CellAfter(c, HeadLast(c, head)))
TAILQ_PREV(c, elm) == Deref(c, CellAfter(c, c.m[elm].prev))

TAILQ_INSERT_TAIL(c, head, elm) ==
    LET c1 == [c EXCEPT !.m[elm].next = NULL, !.m[elm].prev = HeadLast(c, head)]
        c2 == Store(c1, HeadLast(c1, head), elm)
    IN  SetHeadLast(c2, head, elm)

TAILQ_INSERT_HEAD(c, head, elm) ==
    LET f  == Deref(c, head)
        c1 == [c EXCEPT !.m[elm].next = f]
        c2 == IF f # NULL THEN [c1 EXCEPT !.m[f].prev = elm]
                          ELSE SetHeadLast(c1, head, elm)
        c3 == Store(c2, head, elm)
    IN  [c3 EXCEPT !.m[elm].prev = head]

TAILQ_INSERT_AFTER(c, head, listelm, elm) ==
    LET n  == c.m[listelm].next
        c1 == [c EXCEPT !.m[elm].next = n]
        c2 == IF n # NULL THEN [c1 EXCEPT !.m[n].prev = elm]
                          ELSE SetHeadLast(c1, head, elm)
        c3 == [c2 EXCEPT !.m[listelm].next = elm]
    IN  [c3 EXCEPT !.m[elm].prev = listelm]

TAILQ_REMOVE(c, head, elm) ==
    LET n  == c.m[elm].next
        p  == c.m[elm].prev
        c1 == IF n # NULL THEN [c EXCEPT !.m[n].prev = p]
                          ELSE SetHeadLast(c, head, p)
    IN  Store(c1, p, n)

\* the blocks a forward walk from the head visits, as a sequence; the walk
\* is cut after MaxBlocks + 1 blocks (a proper list never has more)
RECURSIVE Walk(_, _, _)
Walk(c, elm, fuel) ==
    IF elm = NULL \/ fuel = 0 THEN <<>>
    ELSE <<elm>> \o Walk(c, c.m[elm].next, fuel - 1)

ListOf(c, head) == Walk(c, Deref(c, head), MaxBlocks + 1)

(* ------------------------- message pool -------------------------------- *)
\* a block as calloc leaves it
ZeroMsg ==
    [ref |-> 0, next |-> NULL, prev |-> NULL, topic |-> "null",
     payload |-> <<>>, payloadNull |-> TRUE, payloadSize |-> 0,
     qos |-> 0, pri |-> 0, sync |-> FALSE, seqNr |-> 0, mqttMid |-> 0,
     error |-> CELIX_SUCCESS]

\* celix_earpmc_msgPoolInit: every block appended to the free list
celix_earpmc_msgPoolInit(cap) ==
    [cap |-> cap, usedSize |-> 0, first |-> 1, last |-> cap,
     m |-> [i \in Slots |->
              IF i > cap THEN ZeroMsg
              ELSE [ZeroMsg EXCEPT !.next = IF i = cap THEN NULL ELSE i + 1,
                                   !.prev = IF i = 1 THEN LocFree ELSE i - 1]]]

\* celix_earpmc_msgPoolAlloc; the result's `ret` is the block or NULL
celix_earpmc_msgPoolAlloc(c) ==
    LET msg == TAILQ_FIRST(c, LocFree) IN
    IF msg # NULL
    THEN [c |-> [TAILQ_REMOVE(c, LocFree, msg) EXCEPT !.usedSize = @ + 1], ret |-> msg]
    ELSE [c |-> c, ret |-> NULL]

celix_earpmc_msgPoolFree(c, msg) ==
    [TAILQ_INSERT_TAIL(c, LocFree, msg) EXCEPT !.usedSize = @ - 1]

\* the admission function with the watermarks taken as exact fractions
HasFreeMsgForExact(usedSize, cap, msgPriority) ==
    IF msgPriority = CELIX_EARPMC_MSG_PRI_LOW THEN usedSize * 100 < cap * 70
    ELSE IF msgPriority = CELIX_EARPMC_MSG_PRI_MIDDLE THEN usedSize * 100 < cap * 85
    ELSE usedSize < cap

\* celix_earpmc_hasFreeMsgFor, on the pool's two numbers
HasFreeMsgFor(usedSize, cap, msgPriority) ==
    IF msgPriority = CELIX_EARPMC_MSG_PRI_LOW THEN usedSize < (cap * 70) \div 100
    ELSE IF msgPriority = CELIX_EARPMC_MSG_PRI_MIDDLE THEN usedSize < (cap * 85) \div 100
    ELSE usedSize < cap

celix_earpmc_hasFreeMsgFor(c, msgPriority) == HasFreeMsgFor(c.usedSize, c.cap, msgPriority)

\* the publishing map taken as full only once it is over the capacity
IsPublishingQueueOverFull(c) ==
    Cardinality(DOMAIN c.publishing) > c.parallelMsgCap

celix_earpmc_isPublishingQueueFull(c) ==
    Cardinality(DOMAIN c.publishing) >= c.parallelMsgCap

(* --------------------------- messages ---------------------------------- *)
\* A block stays readable after its message is destroyed (the array is freed
\* only by destroy), so code that still holds the pointer reads what the
\* destroyed message, or a later one in the same block, left there.  The
\* model does not follow such a read: it records it and the run ends.
Fault(c, what) == [c EXCEPT !.faults = @ \cup {what}]

ReadMsg(c, msg) == IF c.m[msg].topic = "live" THEN c ELSE Fault(c, "stale read")

\* celix_earpmc_messageCreate; `ret` is the message or NULL
celix_earpmc_messageCreate(c, qos, pri, sync) ==
    LET a == celix_earpmc_msgPoolAlloc(c) IN
    IF a.ret = NULL THEN a
    ELSE [c |-> [a.c EXCEPT
                   !.m[a.ret].ref = 1,
                   !.m[a.ret].qos = qos,
                   !.m[a.ret].pri = pri,
                   !.m[a.ret].sync = sync,
                   !.m[a.ret].seqNr = c.nextSeqNr,
                   !.m[a.ret].error = CELIX_SUCCESS,
                   !.m[a.ret].mqttMid = -1,
                   !.m[a.ret].payload = <<>>,
                   !.m[a.ret].payloadNull = TRUE,
                   !.m[a.ret].payloadSize = 0,
                   !.m[a.ret].topic = "live",
                   !.nextSeqNr = @ + 1],
          ret |-> a.ret]

\* celix_earpmc_fillMessagePayload (the property copy is not modelled):
\* the copy is made only when the message's own payloadSize is positive
celix_earpmc_fillMessagePayload(c, msg, payload) ==
    IF c.m[msg].payloadSize > 0 /\ ~payload.null
    THEN [c EXCEPT !.m[msg].payload = payload.data,
                   !.m[msg].payloadNull = FALSE,
                   !.m[msg].payloadSize = payload.size]
    ELSE c

\* celix_earpmc_messageDestroy: frees the topic and the payload and gives
\* the block back; freeing a topic twice is recorded as a heap fault
celix_earpmc_messageDestroy(c, msg) ==
    LET c1 == IF c.m[msg].topic = "freed" THEN Fault(c, "double free") ELSE c
    IN  celix_earpmc_msgPoolFree([c1 EXCEPT !.m[msg].topic = "freed"], msg)

celix_earpmc_messageRetain(c, msg) == [c EXCEPT !.m[msg].ref = @ + 1]

\* celix_ref_put: the release function runs when the count goes from 1 to 0
celix_earpmc_messageRelease(c, msg) ==
    LET c1 == [c EXCEPT !.m[msg].ref = @ - 1] IN
    IF c.m[msg].ref = 1 THEN celix_earpmc_messageDestroy(c1, msg) ELSE c1

\* celix_longHashMap_remove on a map whose removed callback is messageRelease
RemovePublishing(c, key) ==
    IF key \in DOMAIN c.publishing
    THEN [c |-> celix_earpmc_messageRelease(
                   [c EXCEPT !.publishing = MapRemove(@, key)], c.publishing[key]),
          removed |-> TRUE]
    ELSE [c |-> c, removed |-> FALSE]

RemovePublished(c, key) ==
    IF key \in DOMAIN c.published
    THEN [c |-> celix_earpmc_messageRelease(
                   [c EXCEPT !.published = MapRemove(@, key)], c.published[key]),
          removed |-> TRUE]
    ELSE [c |-> c, removed |-> FALSE]

(* ------------------------ publish pipeline ----------------------------- *)
\* one call of mosquitto_publish_v5, as the transport log keeps it
WireRec(msg, data, size, rc) ==
    [slot |-> msg, data |-> data, size |-> size, rc |-> rc]

\* celix_earpmc_publishMessage; rc is what mosquitto_publish_v5 answers
\* (msg->topic is read by the transport: a freed topic is a heap fault)
celix_earpmc_publishMessage(c, msg, data, size, rc) ==
    LET c0 == [(IF c.m[msg].topic = "live" THEN c ELSE Fault(c, "use after free"))
                  EXCEPT !.wire = Append(@, WireRec(msg, data, size, rc))] IN
    IF ~rc
    THEN [c |-> c0, status |-> CELIX_BUNDLE_EXCEPTION]
    ELSE LET mid == c.lastMid + 1
             c1  == [c0 EXCEPT !.lastMid = mid,
                               !.unacked = @ \cup {mid},
                               !.m[msg].mqttMid = mid,
                               !.publishing = MapPut(@, mid, msg)]
         IN  [c |-> celix_earpmc_messageRetain(c1, msg), status |-> CELIX_SUCCESS]

\* the TAILQ_FOREACH_REVERSE of celix_earpmc_enqueueMsgToWaitingQueue: the
\* block the loop stops at (NULL when it runs off the head), in `ret`
RECURSIVE HigherPriMsg(_, _, _, _)
HigherPriMsg(c, var, pri, fuel) ==
    IF var = NULL THEN [c |-> c, ret |-> NULL]
    ELSE IF fuel = 0 THEN [c |-> Fault(c, "endless walk"), ret |-> NULL]
    ELSE IF c.m[var].pri >= pri THEN [c |-> ReadMsg(c, var), ret |-> var]
    ELSE HigherPriMsg(ReadMsg(c, var), TAILQ_PREV(c, var), pri, fuel - 1)

celix_earpmc_enqueueMsgToWaitingQueue(c, msg) ==
    LET h  == HigherPriMsg(c, TAILQ_LAST(c, LocWait), c.m[msg].pri, MaxBlocks + 1)
        c1 == IF h.ret = NULL
              THEN TAILQ_INSERT_HEAD(h.c, LocWait, msg)
              ELSE TAILQ_INSERT_AFTER(h.c, LocWait, h.ret, msg)
    IN  celix_earpmc_messageRetain(c1, msg)

\* a publishDoNext that queues the message the transport refused
PublishDoNextRequeue(c, msg, payload, rc) ==
    IF c.connected /\ ~celix_earpmc_isPublishingQueueFull(c)
    THEN LET p == celix_earpmc_publishMessage(c, msg, payload.data, payload.size, rc) IN
         IF p.status # CELIX_SUCCESS
         THEN [c |-> celix_earpmc_enqueueMsgToWaitingQueue(
                        celix_earpmc_fillMessagePayload(p.c, msg, payload), msg),
               status |-> p.status]
         ELSE p
    ELSE [c |-> celix_earpmc_enqueueMsgToWaitingQueue(
                   celix_earpmc_fillMessagePayload(c, msg, payload), msg),
          status |-> CELIX_SUCCESS]

\* celix_earpmc_publishDoNext
celix_earpmc_publishDoNext(c, msg, payload, rc) ==
    IF c.connected /\ ~celix_earpmc_isPublishingQueueFull(c)
    THEN celix_earpmc_publishMessage(c, msg, payload.data, payload.size, rc)
    ELSE [c |-> celix_earpmc_enqueueMsgToWaitingQueue(
                   celix_earpmc_fillMessagePayload(c, msg, payload), msg),
          status |-> CELIX_SUCCESS]

\* celix_earpmc_enqueueMsgToPublishedQueue
celix_earpmc_enqueueMsgToPublishedQueue(c, msg, error) ==
    IF ~c.m[msg].sync THEN ReadMsg(c, msg)
    ELSE celix_earpmc_messageRetain(
             [ReadMsg(c, msg) EXCEPT !.m[msg].error = error,
                                     !.published = MapPut(@, c.m[msg].seqNr, msg)], msg)

\* the loop of celix_earpmc_releaseWaitingMsgToPublishing; rcs[i] is the
\* transport's answer to the i-th publish of the loop
RECURSIVE DrainLoop(_, _, _, _)
DrainLoop(c, curMsg, rcs, i) ==
    IF curMsg = NULL \/ celix_earpmc_isPublishingQueueFull(c) \/ i > Len(rcs) THEN c
    ELSE LET nextMsg == TAILQ_NEXT(c, curMsg)
             p  == celix_earpmc_publishMessage(c, curMsg, c.m[curMsg].payload,
                                               c.m[curMsg].payloadSize, rcs[i])
             c1 == IF p.status # CELIX_SUCCESS
                   THEN celix_earpmc_enqueueMsgToPublishedQueue(p.c, curMsg, p.status)
                   ELSE p.c
             c2 == TAILQ_REMOVE(c1, LocWait, curMsg)
         IN  DrainLoop(celix_earpmc_messageRelease(c2, curMsg), nextMsg, rcs, i + 1)

celix_earpmc_releaseWaitingMsgToPublishing(c, rcs) ==
    DrainLoop(c, TAILQ_FIRST(c, LocWait), rcs, 1)

\* elm is one of the blocks a forward walk of the list visits
OnList(c, head, elm) == LET l == ListOf(c, head) IN \E i \in DOMAIN l : l[i] = elm

\* celix_earpmc_deleteMsgFromQueue: both maps are searched with mqttMid, and
\* when neither holds that key the message is unlinked from the waiting
\* queue, on it or not.  The stores of TAILQ_REMOVE are those of the macro
\* in both cases; unlinking a block that is not on the queue is recorded.
celix_earpmc_deleteMsgFromQueue(c, msg) ==
    LET r1 == RemovePublished(ReadMsg(c, msg), c.m[msg].mqttMid)
        r2 == IF r1.removed THEN r1 ELSE RemovePublishing(r1.c, c.m[msg].mqttMid)
        c3 == IF r2.removed THEN r2.c
              ELSE celix_earpmc_messageRelease(
                       TAILQ_REMOVE(
                           IF OnList(r2.c, LocWait, msg) THEN r2.c
                           ELSE Fault(r2.c, "stale unlink"),
                           LocWait, msg),
                       msg)
    IN  [c3 EXCEPT !.bcast = TRUE]

(* --------------------------- callbacks --------------------------------- *)
\* the orders in which a hash map iterator can visit the keys of a map
Orders(keys) ==
    {o \in [1..Cardinality(keys) -> keys] : \A i, j \in DOMAIN o : i # j => o[i] # o[j]}

\* the resubscription pass that unsubscribes the topics marked with the
\* sentinel and keeps their entries
RefreshKeepingSentinel(c) ==
    LET keep == {t \in DOMAIN c.subscriptions : c.subscriptions[t] > CELIX_EARPM_QOS_UNKNOWN}
    IN  [c EXCEPT !.subWire = @ \cup {<<"subscribe", t>> : t \in keep}
                               \cup {<<"unsubscribe", t>> : t \in (DOMAIN c.subscriptions) \ keep}]

\* celix_earpmc_refreshSubscriptions
celix_earpmc_refreshSubscriptions(c) ==
    LET keep == {t \in DOMAIN c.subscriptions : c.subscriptions[t] > CELIX_EARPM_QOS_UNKNOWN}
    IN  [c EXCEPT !.subWire = @ \cup {<<"subscribe", t>> : t \in keep}
                               \cup {<<"unsubscribe", t>> : t \in (DOMAIN c.subscriptions) \ keep},
                  !.subscriptions = [t \in keep |-> c.subscriptions[t]]]

\* first loop of celix_earpmc_dropQos0Messages, visiting the map in order ord
RECURSIVE DropPublishing(_, _, _)
DropPublishing(c, ord, i) ==
    IF i > Len(ord) THEN c
    ELSE LET msg == c.publishing[ord[i]] IN
         IF c.m[msg].qos <= CELIX_EARPM_QOS_AT_MOST_ONCE
         THEN DropPublishing(
                  RemovePublishing(
                      celix_earpmc_enqueueMsgToPublishedQueue(c, msg, CELIX_ILLEGAL_STATE),
                      ord[i]).c, ord, i + 1)
         ELSE DropPublishing(ReadMsg(c, msg), ord, i + 1)

\* second loop of celix_earpmc_dropQos0Messages
RECURSIVE DropWaiting(_, _, _)
DropWaiting(c, curMsg, fuel) ==
    IF curMsg = NULL THEN c
    ELSE IF fuel = 0 THEN Fault(c, "endless walk")
    ELSE LET nextMsg == TAILQ_NEXT(c, curMsg) IN
         IF c.m[curMsg].qos <= CELIX_EARPM_QOS_AT_MOST_ONCE
         THEN DropWaiting(
                  celix_earpmc_messageRelease(
                      TAILQ_REMOVE(
                          celix_earpmc_enqueueMsgToPublishedQueue(c, curMsg, CELIX_ILLEGAL_STATE),
                          LocWait, curMsg),
                      curMsg), nextMsg, fuel - 1)
         ELSE DropWaiting(ReadMsg(c, curMsg), nextMsg, fuel - 1)

celix_earpmc_dropQos0Messages(c, ord) ==
    LET c1 == DropPublishing(c, ord, 1)
    IN  DropWaiting(c1, TAILQ_FIRST(c1, LocWait), MaxBlocks + 1)

\* a connect callback that sets the flag and drains the waiting queue
\* without the resubscription pass
ConnectBodyNoRefresh(c, rcs) ==
    LET c1 == [c EXCEPT !.connected = TRUE]
        c3 == celix_earpmc_releaseWaitingMsgToPublishing(c1, rcs)
    IN  [c3 EXCEPT !.bcast = TRUE]

\* celix_earpmc_connectCallback with rc = MQTT_RC_SUCCESS, up to the broadcast
ConnectBody(c, rcs) ==
    LET c1 == [c EXCEPT !.connected = TRUE]
        c2 == celix_earpmc_refreshSubscriptions(c1)
        c3 == celix_earpmc_releaseWaitingMsgToPublishing(c2, rcs)
    IN  [c3 EXCEPT !.bcast = TRUE]

\* celix_earpmc_disconnectCallback
DisconnectBody(c, ord) ==
    [celix_earpmc_dropQos0Messages([c EXCEPT !.connected = FALSE], ord) EXCEPT !.bcast = TRUE]

\* celix_earpmc_publishCallback
PublishAckBody(c, mid, reasonCode, rcs) ==
    LET c1 == IF mid \in DOMAIN c.publishing
              THEN LET msg == c.publishing[mid]
                       status == IF reasonCode = MQTT_RC_SUCCESS
                                    \/ reasonCode = MQTT_RC_NO_MATCHING_SUBSCRIBERS
                                 THEN CELIX_SUCCESS ELSE CELIX_ILLEGAL_STATE
                   IN  RemovePublishing(
                           celix_earpmc_enqueueMsgToPublishedQueue(c, msg, status), mid).c
              ELSE c
        c2 == celix_earpmc_releaseWaitingMsgToPublishing(c1, rcs)
    IN  [c2 EXCEPT !.bcast = TRUE, !.unacked = @ \ {mid}]

(* ----------------------------- destroy --------------------------------- *)
\* celix_longHashMap_destroy of a map whose removed callback is messageRelease
RECURSIVE ReleaseAll(_, _, _, _)
ReleaseAll(c, map, ord, i) ==
    IF i > Len(ord) THEN c
    ELSE ReleaseAll(celix_earpmc_messageRelease(c, map[ord[i]]), map, ord, i + 1)

\* the loop of celix_earpmc_destroy that empties the waiting queue
RECURSIVE DestroyWaiting(_, _)
DestroyWaiting(c, fuel) ==
    LET msg == TAILQ_FIRST(c, LocWait) IN
    IF msg = NULL THEN c
    ELSE IF fuel = 0 THEN Fault(c, "endless walk")
    ELSE DestroyWaiting(celix_earpmc_messageRelease(TAILQ_REMOVE(c, LocWait, msg), msg),
                        fuel - 1)

\* celix_earpmc_destroy from the destruction of the maps to msgPoolDeInit
DestroyBody(c, ord1, ord2) ==
    LET c1 == [ReleaseAll(c, c.published, ord1, 1) EXCEPT !.published = EmptyMap]
        c2 == [ReleaseAll(c1, c.publishing, ord2, 1) EXCEPT !.publishing = EmptyMap]
    IN  DestroyWaiting(c2, MaxBlocks + 1)

(* ------------------------- publish calls ------------------------------- *)
\* celix_earpmc_publishAsync under the lock; the message's own reference
\* (celix_autoptr) is dropped on every way out
AsyncBody(c, qos, pri, payload, rc) ==
    IF qos <= CELIX_EARPM_QOS_AT_MOST_ONCE /\ ~c.connected
    THEN [c |-> c, status |-> StatusENOTCONN]
    ELSE IF ~celix_earpmc_hasFreeMsgFor(c, pri)
    THEN [c |-> c, status |-> StatusENOMEM]
    ELSE LET a == celix_earpmc_messageCreate(c, qos, pri, FALSE) IN
         IF a.ret = NULL
         THEN [c |-> a.c, status |-> StatusENOMEM]
         ELSE LET d == celix_earpmc_publishDoNext(
                           [a.c EXCEPT !.given[a.ret] = payload], a.ret, payload, rc)
              IN  [c |-> celix_earpmc_messageRelease(d.c, a.ret), status |-> d.status]

celix_earpmc_isMsgPublished(c, msg) == c.m[msg].seqNr \in DOMAIN c.published

\* celix_earpmc_waitForMsgPublished once the wait loop finds the message
\* published, then the return of publishSync
SyncTake(c, msg) ==
    LET r == RemovePublished(ReadMsg(c, msg), c.m[msg].seqNr)
        status == IF r.c.m[msg].error # CELIX_SUCCESS THEN r.c.m[msg].error
                  ELSE CELIX_SUCCESS
    IN  [c |-> celix_earpmc_messageRelease(r.c, msg), status |-> status,
         msg |-> NULL, at |-> "idle"]

\* celix_earpmc_waitForMsgPublished: the test of the wait loop
SyncAwait(c, msg) ==
    IF celix_earpmc_isMsgPublished(c, msg) THEN SyncTake(c, msg)
    ELSE [c |-> ReadMsg(c, msg), status |-> "none", msg |-> msg, at |-> "waitPub"]

\* publishSync refusing a call that is not admitted at once, whatever its QoS
SyncAdmitNoWait(c, qos, payload, rc) ==
    IF ~celix_earpmc_hasFreeMsgFor(c, CELIX_EARPMC_MSG_PRI_LOW)
    THEN [c |-> c, status |-> StatusENOMEM, msg |-> NULL, at |-> "idle"]
    ELSE LET a == celix_earpmc_messageCreate(c, qos, CELIX_EARPMC_MSG_PRI_LOW, TRUE) IN
         IF a.ret = NULL
         THEN [c |-> a.c, status |-> StatusENOMEM, msg |-> NULL, at |-> "idle"]
         ELSE LET d == celix_earpmc_publishDoNext(
                           [a.c EXCEPT !.given[a.ret] = payload], a.ret, payload, rc)
              IN  IF d.status # CELIX_SUCCESS
                  THEN [c |-> celix_earpmc_messageRelease(d.c, a.ret),
                        status |-> d.status, msg |-> NULL, at |-> "idle"]
                  ELSE SyncAwait(d.c, a.ret)

\* celix_earpmc_publishSync from the test of its first wait loop on
SyncAdmit(c, qos, payload, rc) ==
    IF ~celix_earpmc_hasFreeMsgFor(c, CELIX_EARPMC_MSG_PRI_LOW)
    THEN IF qos <= CELIX_EARPM_QOS_AT_MOST_ONCE
         THEN [c |-> c, status |-> StatusENOMEM, msg |-> NULL, at |-> "idle"]
         ELSE [c |-> c, status |-> "none", msg |-> NULL, at |-> "waitFree"]
    ELSE LET a == celix_earpmc_messageCreate(c, qos, CELIX_EARPMC_MSG_PRI_LOW, TRUE) IN
         IF a.ret = NULL
         THEN [c |-> a.c, status |-> StatusENOMEM, msg |-> NULL, at |-> "idle"]
         ELSE LET d == celix_earpmc_publishDoNext(
                           [a.c EXCEPT !.given[a.ret] = payload], a.ret, payload, rc)
              IN  IF d.status # CELIX_SUCCESS
                  THEN [c |-> celix_earpmc_messageRelease(d.c, a.ret),
                        status |-> d.status, msg |-> NULL, at |-> "idle"]
                  ELSE SyncAwait(d.c, a.ret)

\* celix_earpmc_publishSync from its entry
SyncBody(c, qos, payload, rc) ==
    IF qos <= CELIX_EARPM_QOS_AT_MOST_ONCE /\ ~c.connected
    THEN [c |-> c, status |-> StatusENOTCONN, msg |-> NULL, at |-> "idle"]
    ELSE SyncAdmit(c, qos, payload, rc)

\* celix_earpmc_waitForMsgPublished when the wait fails, then the return
SyncTimeout(c, msg) ==
    [c |-> celix_earpmc_messageRelease(celix_earpmc_deleteMsgFromQueue(c, msg), msg),
     status |-> StatusETIMEDOUT, msg |-> NULL, at |-> "idle"]

(* ------------------------------ state ---------------------------------- *)
\* the record of a step in which no publish call returned
NoRet == [caller |-> -1, qos |-> 0, status |-> "none"]
\* the arguments kept for a thread that is not inside publishSync
NoArg == [qos |-> CELIX_EARPM_QOS_AT_MOST_ONCE, payload |-> NoPayload]
\* the caller number of publishAsync in `ret`
AsyncCaller == 0

\* A block that holds no message and that no map, no queue walk and no
\* caller refers to: messageCreate overwrites every field below before
\* anything reads it, so the values a destroyed message left are not kept.
Unreferenced(c, tm, s) ==
    /\ c.m[s].topic # "live"
    /\ \A k \in DOMAIN c.publishing : c.publishing[k] # s
    /\ \A k \in DOMAIN c.published : c.published[k] # s
    /\ \A t \in Threads : tm[t] # s
    /\ ~OnList(c, LocWait, s)

Scrub(msg) ==
    [msg EXCEPT !.qos = 0, !.pri = 0, !.sync = FALSE, !.seqNr = 0, !.mqttMid = 0,
                !.error = CELIX_SUCCESS, !.payload = <<>>, !.payloadNull = TRUE,
                !.payloadSize = 0]

\* the client's state after a step is c; tm is the threads' msg after it
CommitClient(c, tm) ==
    /\ pool' = [cap |-> c.cap, usedSize |-> c.usedSize, first |-> c.ffirst,
                last |-> c.flast]
    /\ parallelMsgCap' = c.parallelMsgCap
    /\ probe' = probe
    /\ opts' = opts
    /\ msgs' = [s \in Slots |-> IF Unreferenced(c, tm, s) THEN Scrub(c.m[s]) ELSE c.m[s]]
    /\ waiting' = [first |-> c.wfirst, last |-> c.wlast]
    /\ publishing' = c.publishing
    /\ published' = c.published
    /\ subscriptions' = c.subscriptions
    /\ connected' = c.connected
    /\ nextSeqNr' = c.nextSeqNr
    /\ lastMid' = c.lastMid
    /\ unacked' = c.unacked
    /\ wire' = c.wire
    /\ subWire' = c.subWire
    /\ given' = [s \in Slots |-> IF c.m[s].topic = "live" /\ OnList(c, LocWait, s)
                                  THEN c.given[s] ELSE NoPayload]
    /\ faults' = c.faults

\* the same for a step that is not a step of the network thread
Commit(c, tm) == CommitClient(c, tm) /\ mosq' = mosq

\* The transport's answers to the publishes of one drain: one per message
\* on the waiting queue (the entries beyond them are never consulted).
RcSeqs ==
    LET n == Len(ListOf(Cur, LocWait))
    IN  {[i \in Slots |-> IF i <= n THEN rcs[i] ELSE TRUE] : rcs \in [1..n -> BOOLEAN]}

\* no question has been put to the admission function
NoProbe == [cap |-> 0, usedSize |-> 0, pri |-> -1, admitted |-> FALSE]

\* The network thread as celixThread_create starts it, with no broker known
\* and destroy not begun.  tpc is the thread's position in
\* celix_earpmc_mosqThread, running / reconnectDelay / reconnectCount / rc
\* are its locals (rc as "rc is success"), brokers is the key set of
\* client->brokerInfoMap (service ids), lastSvc the highest service id the
\* framework has handed out, using is client->usingBrokerInfoServiceId,
\* host is the broker the transport remembers from its last connect call
\* (NoHost before the first), tried is the brokers the last run of
\* connectBroker asked the transport to connect to, in order, link is the
\* transport's connection, signalled is a wake-up of
\* brokerInfoChangedOrExiting delivered to the waiting thread, dpc is the
\* position of celix_earpmc_destroy and seen is where the thread was when
\* destroy signalled.  cb is the thread's position in
\* celix_earpmc_connectCallback ("idle" outside it), held says that the
\* callback holds client->mutex, cbRc is the rc the last connect callback was
\* called with (NoRc before the first), and cbLog lists what the last
\* successful connect callback has done so far.  early says that the last
\* timed wait of the thread returned before its time was up.
NoHost == 0
NoRc == -1
MosqStarted ==
    [tpc |-> "start", running |-> FALSE, reconnectDelay |-> 0, reconnectCount |-> 0,
     rc |-> FALSE, brokers |-> {}, lastSvc |-> 0, using |-> -1, host |-> NoHost,
     tried |-> <<>>, link |-> "down", signalled |-> FALSE,
     dpc |-> "idle", seen |-> "none",
     cb |-> "idle", held |-> FALSE, cbRc |-> NoRc, cbLog |-> <<>>,
     early |-> FALSE]

\* the client as celix_earpmc_create returns it
Created(msgQueueCapacity, parallelMsgCapacity) ==
    /\ pool = [cap |-> celix_earpmc_msgPoolInit(msgQueueCapacity).cap,
               usedSize |-> celix_earpmc_msgPoolInit(msgQueueCapacity).usedSize,
               first |-> celix_earpmc_msgPoolInit(msgQueueCapacity).first,
               last |-> celix_earpmc_msgPoolInit(msgQueueCapacity).last]
    /\ msgs = celix_earpmc_msgPoolInit(msgQueueCapacity).m
    /\ parallelMsgCap = parallelMsgCapacity
    /\ waiting = [first |-> NULL, last |-> LocWait]
    /\ publishing = EmptyMap
    /\ published = EmptyMap
    /\ subscriptions = EmptyMap
    /\ connected = FALSE
    /\ running = TRUE
    /\ nextSeqNr = 0
    /\ lastMid = 0
    /\ unacked = {}
    /\ wire = <<>>
    /\ subWire = {}
    /\ given = [i \in Slots |-> NoPayload]
    /\ faults = {}
    /\ pc = [t \in Threads |-> "idle"]
    /\ tmsg = [t \in Threads |-> NULL]
    /\ targ = [t \in Threads |-> NoArg]
    /\ ret = NoRet
    /\ destroyed = FALSE
    /\ mosq = MosqStarted
    /\ opts = [msgQueueCap |-> msgQueueCapacity, parallelMsgCap |-> parallelMsgCapacity,
               client |-> "client"]

Init == Created(PoolCap, ParallelCap) /\ probe = NoProbe

InitOrder == Created(OrderPoolCap, OrderParallelCap) /\ probe = NoProbe

(* ----------------------------- actions --------------------------------- *)
\* The faults that end a run.  A topic freed twice and a freed topic handed
\* to the transport are undefined behaviour of the C library; a stale read
\* makes the next step depend on values the model does not keep; an endless
\* walk never returns.  The step that meets one is completed as the code
\* completes it when the heap happens to stay intact, the state it leaves
\* is kept with the fault recorded, and no step is taken from it.
\* A stale unlink (deleteMsgFromQueue) is recorded too, and the run goes on:
\* the stores it makes are defined, and so is what follows from them.
FatalFaults == {"double free", "use after free", "stale read", "endless walk"}

\* Every message is handed to the transport at most once unless a queue has
\* been corrupted, so the transport's message id exceeds the number of
\* messages created only then; a run is not followed beyond that point.
Alive == ~destroyed /\ faults \cap FatalFaults = {} /\ lastMid <= MaxSeq

\* The waits on msgStatusChanged are pthread condition waits: they return
\* CELIX_SUCCESS after a broadcast or spuriously, and with ETIMEDOUT once the
\* caller's deadline has passed, whatever happened in between.

\* a thread's step of publishSync, called with arg, ends at r
SyncStep(t, arg, r) ==
    /\ Commit(r.c, [tmsg EXCEPT ![t] = r.msg])
    /\ pc' = [pc EXCEPT ![t] = r.at]
    /\ tmsg' = [tmsg EXCEPT ![t] = r.msg]
    /\ targ' = [targ EXCEPT ![t] = IF r.at = "idle" THEN NoArg ELSE arg]
    /\ ret' = IF r.at = "idle"
              THEN [caller |-> t, qos |-> arg.qos, status |-> r.status]
              ELSE NoRet
    /\ UNCHANGED <<running, destroyed>>

PublishAsync(qos, pri, payload, rc) ==
    /\ Alive
    /\ nextSeqNr < MaxSeq
    /\ LET r == AsyncBody(Cur, qos, pri, payload, rc) IN
       /\ Commit(r.c, tmsg)
       /\ ret' = [caller |-> AsyncCaller, qos |-> qos, status |-> r.status]
    /\ UNCHANGED <<running, pc, tmsg, targ, destroyed>>

PublishSyncCall(t, qos, payload, rc) ==
    /\ Alive
    /\ nextSeqNr < MaxSeq
    /\ pc[t] = "idle"
    /\ SyncStep(t, [qos |-> qos, payload |-> payload], SyncBody(Cur, qos, payload, rc))

\* the wait for a free message returns CELIX_SUCCESS
PublishSyncFreeWake(t, rc) ==
    /\ Alive
    /\ pc[t] = "waitFree"
    /\ nextSeqNr < MaxSeq
    /\ SyncStep(t, targ[t], SyncAdmit(Cur, targ[t].qos, targ[t].payload, rc))

\* the wait for a free message fails: the deadline has passed
PublishSyncFreeTimeout(t) ==
    /\ Alive
    /\ pc[t] = "waitFree"
    /\ SyncStep(t, targ[t],
                [c |-> Cur, status |-> StatusETIMEDOUT, msg |-> NULL, at |-> "idle"])

\* the wait for the outcome returns CELIX_SUCCESS
PublishSyncWake(t) ==
    /\ Alive
    /\ pc[t] = "waitPub"
    /\ SyncStep(t, targ[t], SyncAwait(Cur, tmsg[t]))

\* the wait for the outcome fails: the deadline has passed
PublishSyncTimeout(t) ==
    /\ Alive
    /\ pc[t] = "waitPub"
    /\ SyncStep(t, targ[t], SyncTimeout(Cur, tmsg[t]))

\* a callback of the network thread ends at c
CallbackStep(c) ==
    /\ Commit(c, tmsg)
    /\ ret' = NoRet
    /\ UNCHANGED <<running, pc, tmsg, targ, destroyed>>

ConnectCallback(rcs) ==
    /\ Alive
    /\ ~connected
    /\ CallbackStep(ConnectBody(Cur, rcs))

\* celix_earpmc_connectCallback with rc # MQTT_RC_SUCCESS returns at once
ConnectFailedCallback ==
    /\ Alive
    /\ ~connected
    /\ CallbackStep(Cur)

DisconnectCallback(ord) ==
    /\ Alive
    /\ CallbackStep(DisconnectBody(Cur, ord))

PublishCallback(mid, reasonCode, rcs) ==
    /\ Alive
    /\ connected
    /\ mid \in unacked
    /\ CallbackStep(PublishAckBody(Cur, mid, reasonCode, rcs))

\* celix_earpmc_destroy, called when no publish call is in progress
\* After free(client) nothing of the client is left: the model keeps the
\* usedSize that msgPoolDeInit asserted on, the faults, and the static
\* sequence counter, and clears the rest.
Destroy(ord1, ord2) ==
    /\ Alive
    /\ \A t \in Threads : pc[t] = "idle"
    /\ LET c == DestroyBody(Cur, ord1, ord2) IN
       /\ pool' = [cap |-> c.cap, usedSize |-> c.usedSize, first |-> NULL,
                   last |-> LocFree]
       /\ faults' = c.faults
       /\ nextSeqNr' = c.nextSeqNr
    /\ msgs' = [s \in Slots |-> ZeroMsg]
    /\ waiting' = [first |-> NULL, last |-> LocWait]
    /\ publishing' = EmptyMap
    /\ published' = EmptyMap
    /\ subscriptions' = EmptyMap
    /\ connected' = FALSE
    /\ lastMid' = 0
    /\ unacked' = {}
    /\ wire' = <<>>
    /\ subWire' = {}
    /\ given' = [s \in Slots |-> NoPayload]
    /\ running' = FALSE
    /\ destroyed' = TRUE
    /\ ret' = NoRet
    /\ UNCHANGED <<pc, tmsg, targ, parallelMsgCap, probe, mosq, opts>>

(* ------------------------- admission probe ----------------------------- *)
\* the pools the admission function is asked about: every capacity up to
\* MaxAdmitCap with every in-use count up to the capacity
InitAdmit ==
    /\ Created(PoolCap, ParallelCap)
    /\ probe \in {[cap |-> cap, usedSize |-> usedSize, pri |-> -1, admitted |-> FALSE] :
                      cap \in 1..MaxAdmitCap, usedSize \in 0..MaxAdmitCap}
    /\ probe.usedSize <= probe.cap

\* celix_earpmc_hasFreeMsgFor is asked about the pool of the probe
AskAdmission(msgPriority) ==
    /\ probe.pri = -1
    /\ probe' = [probe EXCEPT !.pri = msgPriority,
                              !.admitted = HasFreeMsgFor(probe.usedSize, probe.cap,
                                                         msgPriority)]
    /\ UNCHANGED <<pool, msgs, waiting, publishing, published, parallelMsgCap,
                   subscriptions, connected, running, nextSeqNr, lastMid, unacked,
                   wire, subWire, given, faults, pc, tmsg, targ, ret, destroyed,
                   mosq, opts>>

(* --------------------------- specifications ---------------------------- *)
\* the thread of Spec that calls publishSync
Caller == 1

\* one publishSync caller, publishAsync, the callbacks and destroy
Next ==
    \/ \E qos \in QosSet, pri \in PriSet, payload \in PayloadSet, rc \in BOOLEAN :
           PublishAsync(qos, pri, payload, rc)
    \/ \E qos \in QosSet, payload \in PayloadSet, rc \in BOOLEAN :
           PublishSyncCall(Caller, qos, payload, rc)
    \/ \E rc \in BOOLEAN : PublishSyncFreeWake(Caller, rc)
    \/ PublishSyncFreeTimeout(Caller)
    \/ PublishSyncWake(Caller)
    \/ PublishSyncTimeout(Caller)
    \/ \E rcs \in RcSeqs : ConnectCallback(rcs)
    \/ ConnectFailedCallback
    \/ \E ord \in Orders(DOMAIN publishing) : DisconnectCallback(ord)
    \/ \E mid \in unacked, reasonCode \in ReasonSet, rcs \in RcSeqs :
           PublishCallback(mid, reasonCode, rcs)
    \/ \E ord1 \in Orders(DOMAIN published), ord2 \in Orders(DOMAIN publishing) :
           Destroy(ord1, ord2)

Spec == Init /\ [][Next]_vars

\* publishSync callers on every thread, the callbacks and destroy
NextSync ==
    \/ \E t \in Threads, qos \in QosSet, rc \in BOOLEAN :
           PublishSyncCall(t, qos, OnePayload, rc)
    \/ \E t \in Threads, rc \in BOOLEAN : PublishSyncFreeWake(t, rc)
    \/ \E t \in Threads : PublishSyncFreeTimeout(t)
    \/ \E t \in Threads : PublishSyncWake(t)
    \/ \E t \in Threads : PublishSyncTimeout(t)
    \/ \E rcs \in RcSeqs : ConnectCallback(rcs)
    \/ ConnectFailedCallback
    \/ \E ord \in Orders(DOMAIN publishing) : DisconnectCallback(ord)
    \/ \E mid \in unacked, reasonCode \in ReasonSet, rcs \in RcSeqs :
           PublishCallback(mid, reasonCode, rcs)
    \/ \E ord1 \in Orders(DOMAIN published), ord2 \in Orders(DOMAIN publishing) :
           Destroy(ord1, ord2)

SpecSync == Init /\ [][NextSync]_vars

\* publishAsync and the callbacks on a client with room for every message
NextOrder ==
    \/ \E qos \in QosSet, pri \in PriSet, payload \in PayloadSet, rc \in BOOLEAN :
           PublishAsync(qos, pri, payload, rc)
    \/ \E rcs \in RcSeqs : ConnectCallback(rcs)
    \/ ConnectFailedCallback
    \/ \E ord \in Orders(DOMAIN publishing) : DisconnectCallback(ord)
    \/ \E mid \in unacked, reasonCode \in ReasonSet, rcs \in RcSeqs :
           PublishCallback(mid, reasonCode, rcs)

SpecOrder == InitOrder /\ [][NextOrder]_vars

\* the admission function on its own
NextAdmit == \E msgPriority \in PriSet : AskAdmission(msgPriority)

SpecAdmit == InitAdmit /\ [][NextAdmit]_vars

(* --------------------------- subscriptions ----------------------------- *)
CELIX_ILLEGAL_ARGUMENT == "CELIX_ILLEGAL_ARGUMENT"

\* topics are strings, modelled as sequences of characters: a letter, the
\* wildcard marker of the event admin and the multi-level wildcard of MQTT
TopicSet == {<<>>, <<"a">>, <<"a", "*">>, <<"a", "#">>}

\* the longest topic celix_earpmc_validateTopic lets through
TopicMaxLen == 1024

\* a validateTopic without the test of the length
ValidateTopicAnyLength(topic) ==
    /\ Len(topic) # 0
    /\ \A i \in DOMAIN topic : topic[i] \notin {"#", "+", "$"}

\* celix_earpmc_validateTopic
celix_earpmc_validateTopic(topic) ==
    /\ Len(topic) # 0
    /\ Len(topic) <= TopicMaxLen
    /\ \A i \in DOMAIN topic : topic[i] \notin {"#", "+", "$"}

\* the topic taken as it is
SameTopic(topic) == topic

\* the mqttTopic of subscribe and unsubscribe: a trailing '*' becomes '#'
MqttTopic(topic) ==
    IF topic[Len(topic)] = "*" THEN [topic EXCEPT ![Len(topic)] = "#"] ELSE topic

\* celix_stringHashMap_getLong(client->subscriptions, topic, CELIX_EARPM_QOS_UNKNOWN)
GetQos(c, topic) ==
    IF topic \in DOMAIN c.subscriptions THEN c.subscriptions[topic]
    ELSE CELIX_EARPM_QOS_UNKNOWN

\* subscribe that leaves the new entry in place when the transport refuses
SubscribeNoRollback(c, topicArg, qos, rc) ==
    IF ~celix_earpmc_validateTopic(topicArg)
    THEN [c |-> c, status |-> CELIX_ILLEGAL_ARGUMENT]
    ELSE LET topic == MqttTopic(topicArg)
             c1 == [c EXCEPT !.subscriptions = MapPut(@, topic, qos)]
         IN  IF c.connected
             THEN [c |-> [c1 EXCEPT !.subWire = @ \cup {<<"subscribe", topic>>}],
                   status |-> IF rc THEN CELIX_SUCCESS ELSE CELIX_BUNDLE_EXCEPTION]
             ELSE [c |-> c1, status |-> CELIX_SUCCESS]

\* celix_earpmc_subscribe; rc is what mosquitto_subscribe_v5 answers
SubscribeBody(c, topicArg, qos, rc) ==
    IF ~celix_earpmc_validateTopic(topicArg)
    THEN [c |-> c, status |-> CELIX_ILLEGAL_ARGUMENT]
    ELSE LET topic == MqttTopic(topicArg)
             oldQos == GetQos(c, topic)
             c1 == [c EXCEPT !.subscriptions = MapPut(@, topic, qos)]
         IN  IF c.connected
             THEN LET c2 == [c1 EXCEPT !.subWire = @ \cup {<<"subscribe", topic>>}] IN
                  IF ~rc
                  THEN [c |-> [c2 EXCEPT !.subscriptions =
                                   IF oldQos # CELIX_EARPM_QOS_UNKNOWN
                                   THEN MapPut(@, topic, oldQos)
                                   ELSE MapRemove(@, topic)],
                        status |-> CELIX_BUNDLE_EXCEPTION]
                  ELSE [c |-> c2, status |-> CELIX_SUCCESS]
             ELSE [c |-> c1, status |-> CELIX_SUCCESS]

\* unsubscribe that removes the entry on a disconnected client too
UnsubscribeNoSentinel(c, topicArg, rc) ==
    IF ~celix_earpmc_validateTopic(topicArg)
    THEN [c |-> c, status |-> CELIX_ILLEGAL_ARGUMENT]
    ELSE LET topic == MqttTopic(topicArg) IN
         IF c.connected
         THEN [c |-> [c EXCEPT !.subscriptions = MapRemove(@, topic),
                               !.subWire = @ \cup {<<"unsubscribe", topic>>}],
               status |-> IF rc THEN CELIX_SUCCESS ELSE CELIX_BUNDLE_EXCEPTION]
         ELSE [c |-> [c EXCEPT !.subscriptions = MapRemove(@, topic)],
               status |-> CELIX_SUCCESS]

\* celix_earpmc_unsubscribe; rc is what mosquitto_unsubscribe answers
UnsubscribeBody(c, topicArg, rc) ==
    IF ~celix_earpmc_validateTopic(topicArg)
    THEN [c |-> c, status |-> CELIX_ILLEGAL_ARGUMENT]
    ELSE LET topic == MqttTopic(topicArg) IN
         IF c.connected
         THEN [c |-> [c EXCEPT !.subscriptions = MapRemove(@, topic),
                               !.subWire = @ \cup {<<"unsubscribe", topic>>}],
               status |-> IF rc THEN CELIX_SUCCESS ELSE CELIX_BUNDLE_EXCEPTION]
         ELSE [c |-> [c EXCEPT !.subscriptions =
                          MapPut(@, topic, CELIX_EARPM_QOS_UNKNOWN)],
               status |-> CELIX_SUCCESS]

\* the caller numbers of subscribe and unsubscribe in `ret`
SubscribeCaller == -2
UnsubscribeCaller == -3

Subscribe(topic, qos, rc) ==
    /\ Alive
    /\ LET r == SubscribeBody(Cur, topic, qos, rc) IN
       /\ Commit(r.c, tmsg)
       /\ ret' = [caller |-> SubscribeCaller, qos |-> qos, status |-> r.status]
    /\ UNCHANGED <<running, pc, tmsg, targ, destroyed>>

Unsubscribe(topic, rc) ==
    /\ Alive
    /\ LET r == UnsubscribeBody(Cur, topic, rc) IN
       /\ Commit(r.c, tmsg)
       /\ ret' = [caller |-> UnsubscribeCaller, qos |-> CELIX_EARPM_QOS_UNKNOWN,
                  status |-> r.status]
    /\ UNCHANGED <<running, pc, tmsg, targ, destroyed>>

\* subscribe, unsubscribe and the connection callbacks
NextSub ==
    \/ \E topic \in TopicSet, qos \in QosSet, rc \in BOOLEAN : Subscribe(topic, qos, rc)
    \/ \E topic \in TopicSet, rc \in BOOLEAN : Unsubscribe(topic, rc)
    \/ \E rcs \in RcSeqs : ConnectCallback(rcs)
    \/ ConnectFailedCallback
    \/ \E ord \in Orders(DOMAIN publishing) : DisconnectCallback(ord)

SpecSub == Init /\ [][NextSub]_vars

(* --------------------------- network thread ---------------------------- *)
\* what the network thread and the head of destroy do not touch
clientVars == <<pool, msgs, waiting, publishing, published, parallelMsgCap,
                subscriptions, connected, nextSeqNr, lastMid, unacked, wire, subWire,
                given, faults, pc, tmsg, targ, ret, destroyed, probe, opts>>

\* a signal that never reaches the thread
NoSignal(m) == m

\* celixThreadCondition_signal(&client->brokerInfoChangedOrExiting): wakes
\* the thread if it is blocked on the condition, and is lost otherwise
Signal(m) == IF m.tpc \in {"condWait", "timedWait"} THEN [m EXCEPT !.signalled = TRUE]
             ELSE m

\* bool running = client->running, before the outer loop
ThreadStart ==
    /\ mosq.tpc = "start"
    /\ mosq' = [mosq EXCEPT !.tpc = "top", !.running = running]
    /\ UNCHANGED <<clientVars, running>>

\* the thread going on to connect although a delay is pending
ThreadTopIgnoringDelay ==
    /\ mosq.tpc = "top"
    /\ mosq' = IF ~mosq.running THEN [mosq EXCEPT !.tpc = "exit"]
               ELSE IF running /\ mosq.brokers = {}
               THEN [mosq EXCEPT !.tpc = "condWait", !.signalled = FALSE]
               ELSE [mosq EXCEPT !.running = running,
                                 !.tpc = IF running THEN "connect" ELSE "top"]
    /\ UNCHANGED <<clientVars, running>>

\* while (running) { lock; while (client->running && (no broker ||
\* reconnectDelay > 0)) wait; running = client->running; unlock; ...
\* The thread holds the mutex from the test to the wait, which releases it.
ThreadTop ==
    /\ mosq.tpc = "top"
    /\ mosq' = IF ~mosq.running THEN [mosq EXCEPT !.tpc = "exit"]
               ELSE IF running /\ (mosq.brokers = {} \/ mosq.reconnectDelay > 0)
               THEN IF mosq.reconnectDelay = 0
                    THEN [mosq EXCEPT !.tpc = "condWait", !.signalled = FALSE]
                    ELSE [mosq EXCEPT !.tpc = "timedWait", !.signalled = FALSE]
               ELSE [mosq EXCEPT !.running = running,
                                 !.tpc = IF running THEN "connect" ELSE "top"]
    /\ UNCHANGED <<clientVars, running>>

\* celixThreadCondition_wait returns after a signal
ThreadCondWake ==
    /\ mosq.tpc = "condWait"
    /\ mosq.signalled
    /\ mosq' = [mosq EXCEPT !.tpc = "top", !.signalled = FALSE]
    /\ UNCHANGED <<clientVars, running>>

\* celixThreadCondition_wait returns though nothing signalled
ThreadSpuriousWake ==
    /\ mosq.tpc = "condWait"
    /\ ~mosq.signalled
    /\ mosq' = [mosq EXCEPT !.tpc = "top"]
    /\ UNCHANGED <<clientVars, running>>

\* the wait that leaves reconnectDelay as it is
ThreadTimedWakeKeepingDelay(timedOut) ==
    /\ mosq.tpc = "timedWait"
    /\ timedOut \/ mosq.signalled
    /\ mosq' = [mosq EXCEPT !.tpc = "top", !.signalled = FALSE, !.early = ~timedOut]
    /\ UNCHANGED <<clientVars, running>>

\* celixThreadCondition_timedwaitRelative returns, because its time is up
\* (timedOut) or because the condition was signalled before that;
\* reconnectDelay = 0
ThreadTimedWake(timedOut) ==
    /\ mosq.tpc = "timedWait"
    /\ timedOut \/ mosq.signalled
    /\ mosq' = [mosq EXCEPT !.tpc = "top", !.signalled = FALSE, !.reconnectDelay = 0,
                            !.early = ~timedOut]
    /\ UNCHANGED <<clientVars, running>>

Min(a, b) == IF a < b THEN a ELSE b

\* the loop of celix_earpmc_connectBroker over its copy of the map, visited
\* in order ord; oks[i] is the transport's answer to the i-th connect
RECURSIVE ConnectEach(_, _, _, _)
ConnectEach(m, ord, oks, i) ==
    IF i > Len(ord) THEN m
    ELSE LET m1 == [m EXCEPT !.host = ord[i], !.tried = Append(@, ord[i])] IN
         IF oks[i] THEN [m1 EXCEPT !.rc = TRUE, !.link = "up", !.using = ord[i]]
         ELSE ConnectEach(m1, ord, oks, i + 1)

\* celix_earpmc_connectBroker: mosquitto_reconnect when the broker used last
\* is still in the map, else, or when that fails, a connect to each broker of
\* a copy of the map.  mosquitto_reconnect connects to the broker of the
\* transport's last connect call.  The result's rc is "rc is success".
celix_earpmc_connectBroker(m, reconnectOk, ord, oks) ==
    LET usingBrokerExisted == m.using \in m.brokers
        m0 == [m EXCEPT !.rc = FALSE, !.tried = <<>>]
    IN  IF usingBrokerExisted /\ reconnectOk
        THEN [m0 EXCEPT !.rc = TRUE, !.link = "up", !.tried = <<m.host>>]
        ELSE ConnectEach(IF usingBrokerExisted
                         THEN [m0 EXCEPT !.tried = <<m.host>>] ELSE m0,
                         ord, oks, 1)

\* the bookkeeping that does not clear reconnectCount after a success
ThreadConnectKeepingCount(reconnectOk, ord, oks) ==
    /\ mosq.tpc = "connect"
    /\ LET m == celix_earpmc_connectBroker(mosq, reconnectOk, ord, oks) IN
       mosq' = IF m.rc
               THEN [m EXCEPT !.tpc = "check"]
               ELSE [m EXCEPT !.tpc = "check",
                              !.reconnectCount = Min(@ + 1, MaxReconnect),
                              !.reconnectDelay =
                                  Min(Min(mosq.reconnectCount + 1, MaxReconnect),
                                      CELIX_EARPMC_RECONNECT_DELAY_MAX)]
    /\ UNCHANGED <<clientVars, running>>

\* rc = celix_earpmc_connectBroker(client) and the bookkeeping of the
\* reconnect delay
ThreadConnect(reconnectOk, ord, oks) ==
    /\ mosq.tpc = "connect"
    /\ LET m == celix_earpmc_connectBroker(mosq, reconnectOk, ord, oks) IN
       mosq' = IF m.rc
               THEN [m EXCEPT !.tpc = "check", !.reconnectCount = 0]
               ELSE [m EXCEPT !.tpc = "check",
                              !.reconnectCount = Min(@ + 1, MaxReconnect),
                              !.reconnectDelay =
                                  Min(Min(mosq.reconnectCount + 1, MaxReconnect),
                                      CELIX_EARPMC_RECONNECT_DELAY_MAX)]
    /\ UNCHANGED <<clientVars, running>>

\* the thread going on to the network loop without the second check
ThreadCheckSkipped ==
    /\ mosq.tpc = "check"
    /\ mosq' = [mosq EXCEPT !.tpc = "loop"]
    /\ UNCHANGED <<clientVars, running>>

\* lock; if (client->running == false) return NULL;
ThreadCheck ==
    /\ mosq.tpc = "check"
    /\ mosq' = [mosq EXCEPT !.tpc = IF running THEN "loop" ELSE "exit"]
    /\ UNCHANGED <<clientVars, running>>

\* while (rc == MOSQ_ERR_SUCCESS) rc = mosquitto_loop(...): one test of the
\* loop and, if it passes, one call.  The call fails when there is no
\* connection; on a connection it succeeds unless the connection is lost.
ThreadLoop(lost) ==
    /\ mosq.tpc = "loop"
    /\ lost => mosq.rc /\ mosq.link = "up"
    /\ mosq' = IF ~mosq.rc THEN [mosq EXCEPT !.tpc = "top"]
               ELSE IF mosq.link = "up" /\ ~lost THEN mosq
               ELSE [mosq EXCEPT !.rc = FALSE, !.link = "down"]
    /\ UNCHANGED <<clientVars, running>>

\* celix_earpmc_addBrokerInfoService: the map gains an entry and the
\* condition is signalled.  The framework numbers its services upwards and
\* never hands out a service id twice.
AddBrokerInfoService(serviceId) ==
    /\ mosq.dpc # "joined"
    /\ serviceId > mosq.lastSvc
    /\ mosq' = Signal([mosq EXCEPT !.brokers = @ \cup {serviceId},
                                   !.lastSvc = serviceId])
    /\ UNCHANGED <<clientVars, running>>

\* celix_earpmc_removeBrokerInfoService
RemoveBrokerInfoService(serviceId) ==
    /\ mosq.dpc # "joined"
    /\ serviceId \in mosq.brokers
    /\ mosq' = [mosq EXCEPT !.brokers = @ \ {serviceId}]
    /\ UNCHANGED <<clientVars, running>>

\* celix_earpmc_destroy: lock; client->running = false; unlock
DestroyClearRunning ==
    /\ mosq.dpc = "idle"
    /\ running' = FALSE
    /\ mosq' = [mosq EXCEPT !.dpc = "disconnect"]
    /\ UNCHANGED clientVars

\* celix_earpmc_destroy: mosquitto_disconnect_v5, which fails with
\* MOSQ_ERR_NO_CONN when there is no connection
DestroyDisconnect ==
    /\ mosq.dpc = "disconnect"
    /\ mosq' = [mosq EXCEPT !.dpc = "signal", !.link = "down"]
    /\ UNCHANGED <<clientVars, running>>

\* celix_earpmc_destroy: celixThreadCondition_signal(brokerInfoChangedOrExiting)
DestroySignal ==
    /\ mosq.dpc = "signal"
    /\ mosq' = Signal([mosq EXCEPT !.dpc = "join", !.seen = mosq.tpc])
    /\ UNCHANGED <<clientVars, running>>

\* celix_earpmc_destroy: celixThread_join returns once the thread has exited
DestroyJoin ==
    /\ mosq.dpc = "join"
    /\ mosq.tpc = "exit"
    /\ mosq' = [mosq EXCEPT !.dpc = "joined"]
    /\ UNCHANGED <<clientVars, running>>

\* the transport's answers to one run of connectBroker over the map
ConnectInputs ==
    {[ord |-> ord, oks |-> oks] :
        ord \in Orders(mosq.brokers),
        oks \in [1..Cardinality(mosq.brokers) -> BOOLEAN]}

\* the steps the scheduler and the transport owe the thread: it runs when
\* it can, a signalled or timed wait returns, and a transport call returns
ThreadRun ==
    \/ ThreadStart
    \/ ThreadTop
    \/ ThreadCondWake
    \/ \E timedOut \in BOOLEAN : ThreadTimedWake(timedOut)
    \/ \E reconnectOk \in BOOLEAN, inp \in ConnectInputs :
           ThreadConnect(reconnectOk, inp.ord, inp.oks)
    \/ ThreadCheck
    \/ ThreadLoop(FALSE)

NextThread ==
    \/ ThreadRun
    \/ ThreadSpuriousWake
    \/ ThreadLoop(TRUE)
    \/ \E serviceId \in 1..MaxBrokers : AddBrokerInfoService(serviceId)
    \/ \E serviceId \in 1..MaxBrokers : RemoveBrokerInfoService(serviceId)
    \/ DestroyClearRunning
    \/ DestroyDisconnect
    \/ DestroySignal
    \/ DestroyJoin

\* The thread is never starved and destroy's join returns when it can; a
\* lost connection and a spurious wake-up are never owed.
SpecThread ==
    Init /\ [][NextThread]_vars /\ WF_vars(ThreadRun) /\ WF_vars(DestroyJoin)

\* the network thread with NumBrokers broker info services coming and going
NextBroker ==
    \/ ThreadRun
    \/ ThreadSpuriousWake
    \/ ThreadLoop(TRUE)
    \/ \E serviceId \in 1..NumBrokers : AddBrokerInfoService(serviceId)
    \/ \E serviceId \in 1..NumBrokers : RemoveBrokerInfoService(serviceId)

SpecBroker == Init /\ [][NextBroker]_vars

\* the same next to celix_earpmc_destroy
NextBackoff ==
    \/ NextBroker
    \/ DestroyClearRunning
    \/ DestroyDisconnect
    \/ DestroySignal
    \/ DestroyJoin

SpecBackoff == Init /\ [][NextBackoff]_vars

(* ------------------------ allocation failures -------------------------- *)
\* the allocation of a publish call that fails: none, the strdup of the
\* topic in messageCreate, or the copy in fillMessagePayload
AllocFailSet == {"none", "topic", "copy"}

\* celix_earpmc_messageCreate when celix_utils_strdup returns NULL: the block
\* is taken, its fields are set, the sequence counter is advanced, and the
\* block is given back
MessageCreateNoTopic(c, qos, pri, sync) ==
    LET a == celix_earpmc_msgPoolAlloc(c) IN
    IF a.ret = NULL THEN a
    ELSE [c |-> celix_earpmc_msgPoolFree(
                    [a.c EXCEPT !.m[a.ret].ref = 1,
                                !.m[a.ret].qos = qos,
                                !.m[a.ret].pri = pri,
                                !.m[a.ret].sync = sync,
                                !.m[a.ret].seqNr = c.nextSeqNr,
                                !.m[a.ret].error = CELIX_SUCCESS,
                                !.m[a.ret].mqttMid = -1,
                                !.m[a.ret].payload = <<>>,
                                !.m[a.ret].payloadNull = TRUE,
                                !.m[a.ret].payloadSize = 0,
                                !.m[a.ret].topic = "null",
                                !.nextSeqNr = @ + 1], a.ret),
          ret |-> NULL]

\* publishAsync refusing with a status of its own when the pool has no room
AsyncAllocBodyOwnStatus(c, qos, pri, payload, rc, fail) ==
    IF ~(qos <= CELIX_EARPM_QOS_AT_MOST_ONCE /\ ~c.connected)
       /\ ~celix_earpmc_hasFreeMsgFor(c, pri)
    THEN [c |-> c, status |-> "too many pending"]
    ELSE AsyncBody(c, qos, pri, payload, rc)

\* celix_earpmc_publishAsync under the lock with an allocator that can fail
\* (the caller passes properties, so fillMessagePayload always has a copy to
\* make); where the failing allocation is not reached the call is AsyncBody
AsyncAllocBody(c, qos, pri, payload, rc, fail) ==
    IF (qos <= CELIX_EARPM_QOS_AT_MOST_ONCE /\ ~c.connected)
       \/ ~celix_earpmc_hasFreeMsgFor(c, pri)
       \/ fail = "none"
    THEN AsyncBody(c, qos, pri, payload, rc)
    ELSE IF fail = "topic"
    THEN [c |-> MessageCreateNoTopic(c, qos, pri, FALSE).c, status |-> StatusENOMEM]
    ELSE LET a == celix_earpmc_messageCreate(c, qos, pri, FALSE) IN
         IF a.ret = NULL \/ (c.connected /\ ~celix_earpmc_isPublishingQueueFull(c))
         THEN AsyncBody(c, qos, pri, payload, rc)
         ELSE [c |-> celix_earpmc_messageRelease(a.c, a.ret), status |-> StatusENOMEM]

PublishAsyncAlloc(qos, pri, payload, rc, fail) ==
    /\ Alive
    /\ nextSeqNr < MaxSeq
    /\ LET r == AsyncAllocBody(Cur, qos, pri, payload, rc, fail) IN
       /\ Commit(r.c, tmsg)
       /\ ret' = [caller |-> AsyncCaller, qos |-> qos, status |-> r.status]
    /\ UNCHANGED <<running, pc, tmsg, targ, destroyed>>

\* publishAsync with a failing allocator, and the callbacks
NextAlloc ==
    \/ \E qos \in QosSet, pri \in PriSet, rc \in BOOLEAN, fail \in AllocFailSet :
           PublishAsyncAlloc(qos, pri, OnePayload, rc, fail)
    \/ \E rcs \in RcSeqs : ConnectCallback(rcs)
    \/ ConnectFailedCallback
    \/ \E ord \in Orders(DOMAIN publishing) : DisconnectCallback(ord)
    \/ \E mid \in unacked, reasonCode \in ReasonSet, rcs \in RcSeqs :
           PublishCallback(mid, reasonCode, rcs)

SpecAlloc == Init /\ [][NextAlloc]_vars

(* ------------------------------ create --------------------------------- *)
\* the capacities celix_earpmc_create is given
CapInputs == (0 - CapMargin)..(CELIX_EARPM_MSG_QUEUE_MAX_SIZE + CapMargin)

\* the test of create with zero let through
InvalidCapacityBelowZero(cap) == cap < 0 \/ cap > CELIX_EARPM_MSG_QUEUE_MAX_SIZE

\* the test celix_earpmc_create applies to msgQueueCap and to parallelMsgCap
InvalidCapacity(cap) == cap <= 0 \/ cap > CELIX_EARPM_MSG_QUEUE_MAX_SIZE

\* before celix_earpmc_create: no client, no network thread
InitCreate ==
    /\ opts \in {[msgQueueCap |-> mq, parallelMsgCap |-> pm, client |-> "pending"] :
                    mq \in CapInputs, pm \in CapInputs}
    /\ pool = [cap |-> 0, usedSize |-> 0, first |-> NULL, last |-> LocFree]
    /\ msgs = [s \in Slots |-> ZeroMsg]
    /\ parallelMsgCap = 0
    /\ waiting = [first |-> NULL, last |-> LocWait]
    /\ publishing = EmptyMap
    /\ published = EmptyMap
    /\ subscriptions = EmptyMap
    /\ connected = FALSE
    /\ running = FALSE
    /\ nextSeqNr = 0
    /\ lastMid = 0
    /\ unacked = {}
    /\ wire = <<>>
    /\ subWire = {}
    /\ given = [i \in Slots |-> NoPayload]
    /\ faults = {}
    /\ pc = [t \in Threads |-> "idle"]
    /\ tmsg = [t \in Threads |-> NULL]
    /\ targ = [t \in Threads |-> NoArg]
    /\ ret = NoRet
    /\ destroyed = FALSE
    /\ probe = NoProbe
    /\ mosq = [MosqStarted EXCEPT !.tpc = "none"]

\* celix_earpmc_create (its allocations and the transport's set-up succeed)
Create ==
    /\ opts.client = "pending"
    /\ IF InvalidCapacity(opts.msgQueueCap) \/ InvalidCapacity(opts.parallelMsgCap)
       THEN /\ opts' = [opts EXCEPT !.client = "NULL"]
            /\ UNCHANGED <<pool, msgs, waiting, publishing, published, parallelMsgCap,
                           subscriptions, connected, running, mosq>>
       ELSE /\ opts' = [opts EXCEPT !.client = "client"]
            /\ parallelMsgCap' = opts.parallelMsgCap
            /\ connected' = FALSE
            /\ pool' = [cap |-> celix_earpmc_msgPoolInit(opts.msgQueueCap).cap,
                        usedSize |-> celix_earpmc_msgPoolInit(opts.msgQueueCap).usedSize,
                        first |-> celix_earpmc_msgPoolInit(opts.msgQueueCap).first,
                        last |-> celix_earpmc_msgPoolInit(opts.msgQueueCap).last]
            /\ msgs' = celix_earpmc_msgPoolInit(opts.msgQueueCap).m
            /\ waiting' = [first |-> NULL, last |-> LocWait]
            /\ publishing' = EmptyMap
            /\ published' = EmptyMap
            /\ subscriptions' = EmptyMap
            /\ running' = TRUE
            /\ mosq' = MosqStarted
    /\ UNCHANGED <<nextSeqNr, lastMid, unacked, wire, subWire, given, faults, pc, tmsg,
                   targ, ret, destroyed, probe>>

NextCreate == Create

SpecCreate == InitCreate /\ [][NextCreate]_vars

(* -------------------- the connect callback, step by step --------------- *)
\* the connect callback holds client->mutex
CbHeld == mosq.held

\* the callback's next statement is done; c is the client after it
CbStep(c, pos, held, event) ==
    /\ CommitClient(c, tmsg)
    /\ mosq' = [mosq EXCEPT !.cb = pos, !.held = held, !.cbLog = Append(@, event)]
    /\ UNCHANGED <<running, pc, tmsg, targ, ret, destroyed>>

\* a connect callback with a failure code that calls connectedCallback
CbConnectFailedNotifying(rc) ==
    /\ Alive
    /\ ~connected
    /\ mosq.cb = "idle"
    /\ rc # MQTT_RC_SUCCESS
    /\ mosq' = [mosq EXCEPT !.cbRc = rc, !.cbLog = <<"notify">>]
    /\ UNCHANGED clientVars
    /\ UNCHANGED running

\* celix_earpmc_connectCallback with rc # MQTT_RC_SUCCESS: logs and returns
CbConnectFailed(rc) ==
    /\ Alive
    /\ ~connected
    /\ mosq.cb = "idle"
    /\ rc # MQTT_RC_SUCCESS
    /\ mosq' = [mosq EXCEPT !.cbRc = rc]
    /\ UNCHANGED clientVars
    /\ UNCHANGED running

\* celix_earpmc_connectCallback with rc = MQTT_RC_SUCCESS takes the mutex
CbLock ==
    /\ Alive
    /\ ~connected
    /\ mosq.cb = "idle"
    /\ mosq' = [mosq EXCEPT !.cb = "locked", !.held = TRUE, !.cbRc = MQTT_RC_SUCCESS,
                            !.cbLog = <<>>]
    /\ UNCHANGED clientVars
    /\ UNCHANGED running

\* client->connected = true
CbSetConnected ==
    /\ mosq.cb = "locked"
    /\ CbStep([Cur EXCEPT !.connected = TRUE], "refresh", TRUE, "connected")

\* celix_earpmc_refreshSubscriptions(client)
CbRefresh ==
    /\ mosq.cb = "refresh"
    /\ CbStep(celix_earpmc_refreshSubscriptions(Cur), "release", TRUE, "resubscribe")

\* celix_earpmc_releaseWaitingMsgToPublishing(client)
CbRelease(rcs) ==
    /\ mosq.cb = "release"
    /\ CbStep(celix_earpmc_releaseWaitingMsgToPublishing(Cur, rcs), "unlock", TRUE, "drain")

\* the end of the lock guard's block
CbUnlock ==
    /\ mosq.cb = "unlock"
    /\ CbStep(Cur, "broadcast", FALSE, "unlock")

\* celixThreadCondition_broadcast(&client->msgStatusChanged)
CbBroadcast ==
    /\ mosq.cb = "broadcast"
    /\ CbStep(Cur, "notify", FALSE, "broadcast")

\* client->connectedCallback(client->callbackHandle)
CbNotify ==
    /\ mosq.cb = "notify"
    /\ CbStep(Cur, "idle", FALSE, "notify")

\* the connect callback step by step; the calls of the client's users run
\* while the callback does not hold the mutex, the other callbacks run on
\* the callback's own thread
NextConnect ==
    \/ \E rc \in ReasonSet : CbConnectFailed(rc)
    \/ CbLock
    \/ CbSetConnected
    \/ CbRefresh
    \/ \E rcs \in RcSeqs : CbRelease(rcs)
    \/ CbUnlock
    \/ CbBroadcast
    \/ CbNotify
    \/ ~CbHeld /\ \E topic \in TopicSet, qos \in QosSet, rc \in BOOLEAN :
                      Subscribe(topic, qos, rc)
    \/ ~CbHeld /\ \E topic \in TopicSet, rc \in BOOLEAN : Unsubscribe(topic, rc)
    \/ ~CbHeld /\ \E qos \in QosSet, rc \in BOOLEAN :
                      PublishAsync(qos, CELIX_EARPMC_MSG_PRI_HIGH, OnePayload, rc)
    \/ mosq.cb = "idle" /\ \E ord \in Orders(DOMAIN publishing) : DisconnectCallback(ord)

SpecConnect == Init /\ [][NextConnect]_vars

(* ------------------ callers that wait for a free message --------------- *)
\* publishSync callers on every thread next to publishAsync and the
\* callbacks that complete and release messages
NextWake ==
    \/ \E t \in Threads, rc \in BOOLEAN :
           PublishSyncCall(t, CELIX_EARPM_QOS_AT_LEAST_ONCE, OnePayload, rc)
    \/ \E rc \in BOOLEAN :
           PublishAsync(CELIX_EARPM_QOS_AT_LEAST_ONCE, CELIX_EARPMC_MSG_PRI_HIGH,
                        OnePayload, rc)
    \/ \E t \in Threads, rc \in BOOLEAN : PublishSyncFreeWake(t, rc)
    \/ \E t \in Threads : PublishSyncFreeTimeout(t)
    \/ \E t \in Threads : PublishSyncWake(t)
    \/ \E t \in Threads : PublishSyncTimeout(t)
    \/ \E rcs \in RcSeqs : ConnectCallback(rcs)
    \/ \E ord \in Orders(DOMAIN publishing) : DisconnectCallback(ord)
    \/ \E mid \in unacked, reasonCode \in ReasonSet, rcs \in RcSeqs :
           PublishCallback(mid, reasonCode, rcs)

SpecWake == Init /\ [][NextWake]_vars

(* ------------------------- topic patterns ------------------------------ *)
\* a topic of n characters
LongTopic(n) == [i \in 1..n |-> "a"]

\* the topics subscribe and unsubscribe are called with: the empty one, the
\* longest valid one and one longer, one with each character of the MQTT
\* pattern syntax, and plain and '*' topics
TopicArgs ==
    {<<>>, <<"a">>, <<"a", "*">>, <<"a", "#">>, <<"+", "a">>, <<"a", "$", "a">>,
     LongTopic(TopicMaxLen), LongTopic(TopicMaxLen + 1)}

\* subscribe and unsubscribe with every kind of topic, and the callbacks
NextTopic ==
    \/ \E topic \in TopicArgs, qos \in QosSet, rc \in BOOLEAN : Subscribe(topic, qos, rc)
    \/ \E topic \in TopicArgs, rc \in BOOLEAN : Unsubscribe(topic, rc)
    \/ \E rcs \in RcSeqs : ConnectCallback(rcs)
    \/ \E ord \in Orders(DOMAIN publishing) : DisconnectCallback(ord)

SpecTopic == Init /\ [][NextTopic]_vars

(* ------------------------------ claims --------------------------------- *)
Range(f) == {f[k] : k \in DOMAIN f}
InSeq(x, seq) == \E i \in DOMAIN seq : seq[i] = x
\* the waiting queue and the pool's free list, from head to tail
WaitingNow == ListOf(Cur, LocWait)
FreeNow == ListOf(Cur, LocFree)
\* the client's message structures
Structures == <<pool, msgs, waiting, publishing, published>>
\* no step so far met a fault that ends the run
Intact == faults \cap FatalFaults = {}

\* C1: when the wait of a publishSync call for its outcome fails, its message
\* is afterwards in none of the waiting queue, the publishing map and the
\* published map, and its block is back in the pool.
C1_TimeoutRemovesMessage ==
    [][\A t \in Threads :
          PublishSyncTimeout(t) =>
              /\ tmsg[t] \notin Range(publishing')
              /\ tmsg[t] \notin Range(published')
              /\ ~InSeq(tmsg[t], WaitingNow')
              /\ msgs'[tmsg[t]].topic # "live"
              /\ InSeq(tmsg[t], FreeNow')]_vars

\* C2: the pool's in-use count is never above its capacity and never below
\* zero.
C2_UsedSizeWithinCapacity == pool.usedSize >= 0 /\ pool.usedSize <= pool.cap

\* C3: once destroy has run to its end, with no publish call in progress, the
\* pool's in-use count is exactly zero.
C3_DestroyLeavesNoneInUse == (destroyed /\ Intact) => pool.usedSize = 0

\* the outcome of the message of thread t's publishSync is recorded: the
\* published map holds the message under its sequence number
Recorded(t) ==
    /\ pc[t] = "waitPub"
    /\ msgs[tmsg[t]].seqNr \in DOMAIN published
    /\ published[msgs[tmsg[t]].seqNr] = tmsg[t]

\* C4: once the outcome of a waiting publishSync call is recorded, it stays
\* recorded until the call returns, whatever other calls do, and the call
\* returns it unless its own wait fails in that very step.
C4_RecordedOutcomeReturned ==
    [][\A t \in Threads :
          Recorded(t) =>
              \/ Recorded(t)'
              \/ /\ pc'[t] = "idle"
                 /\ ret'.caller = t
                 /\ ret'.status \in {msgs[tmsg[t]].error, StatusETIMEDOUT}]_vars

\* C5 as amended: a LOW publish is admitted exactly when one more message
\* still fits in 70% of the capacity, a MEDIUM one in 85%, a HIGH one in the
\* capacity; asking changes nothing of the client.
Percent(msgPriority) ==
    IF msgPriority = CELIX_EARPMC_MSG_PRI_LOW THEN 70
    ELSE IF msgPriority = CELIX_EARPMC_MSG_PRI_MIDDLE THEN 85 ELSE 100

C5_AdmittedWhenOneMoreFits ==
    [][probe'.pri # probe.pri =>
          /\ probe'.admitted <=>
                 (probe.usedSize + 1) * 100 <= probe.cap * Percent(probe'.pri)
          /\ Structures' = Structures]_vars

\* C5 as stated: admitted exactly when the in-use count is below 70%, 85%,
\* 100% of the capacity.
C5_AdmittedBelowPercentage ==
    probe.pri # -1 =>
        (probe.admitted <=> probe.usedSize * 100 < probe.cap * Percent(probe.pri))

\* a LOW publish was asked about with 2 of 3 blocks in use, and refused
C5_Witness ==
    /\ probe.pri = CELIX_EARPMC_MSG_PRI_LOW
    /\ probe.cap = 3
    /\ probe.usedSize = 2
    /\ ~probe.admitted

\* C6: a message taken from the waiting queue is handed to the transport
\* with the payload and the payload length its publish call was given.
C6_QueuedPayloadSent ==
    [][\A i \in DOMAIN wire' :
          InSeq(wire'[i].slot, WaitingNow) =>
              /\ wire'[i].data = given[wire'[i].slot].data
              /\ wire'[i].size = given[wire'[i].slot].size]_vars

\* seq is in priority order, oldest first within a priority
Ordered(seq) ==
    \A i, j \in DOMAIN seq :
        i < j => \/ msgs[seq[i]].pri > msgs[seq[j]].pri
                 \/ /\ msgs[seq[i]].pri = msgs[seq[j]].pri
                    /\ msgs[seq[i]].seqNr < msgs[seq[j]].seqNr

\* C7: the messages of the waiting queue are ordered by priority from head
\* to tail, and those of one priority are in the order they were enqueued.
C7_WaitingQueueOrdered ==
    (\A i \in DOMAIN WaitingNow : msgs[WaitingNow[i]].topic = "live") => Ordered(WaitingNow)

\* the blocks a step took from the waiting queue and handed to the
\* transport, in the order it sent them
Drained == SelectSeq([i \in DOMAIN wire' |-> wire'[i].slot],
                     LAMBDA msg : InSeq(msg, WaitingNow))

\* C8: what a step sends from the waiting queue is the head of the queue, in
\* queue order: priority order, oldest first within a priority, and nothing
\* it leaves waiting goes before what it sent.
C8_DrainedInQueueOrder ==
    [][Intact' =>
          /\ Drained = SubSeq(WaitingNow, 1, Len(Drained))
          /\ Ordered(Drained)
          /\ \A i \in DOMAIN Drained : \A j \in DOMAIN WaitingNow :
                 j > Len(Drained) => Ordered(<<Drained[i], WaitingNow[j]>>)]_vars

\* A (LOW), B (HIGH), C (LOW), enqueued in this order, were sent B, A, C
C8_ExampleSent ==
    /\ Len(wire) = 3
    /\ \A i \in 1..3 : wire[i].rc /\ msgs[wire[i].slot].topic = "live"
    /\ msgs[wire[1].slot].pri = CELIX_EARPMC_MSG_PRI_HIGH /\ msgs[wire[1].slot].seqNr = 1
    /\ msgs[wire[2].slot].pri = CELIX_EARPMC_MSG_PRI_LOW /\ msgs[wire[2].slot].seqNr = 0
    /\ msgs[wire[3].slot].pri = CELIX_EARPMC_MSG_PRI_LOW /\ msgs[wire[3].slot].seqNr = 2

Qos0(msg) == msgs[msg].qos <= CELIX_EARPM_QOS_AT_MOST_ONCE

\* C9: a disconnect callback leaves no QoS-0 message in the publishing map
\* or the waiting queue, leaves every synchronous QoS-0 message it took from
\* them in the published map with a failure, and leaves the other messages
\* where they were, in the order they were.
C9_DisconnectPurgesQos0 ==
    [][(Intact' /\ \E ord \in Orders(DOMAIN publishing) : DisconnectCallback(ord)) =>
          /\ publishing' = [k \in {x \in DOMAIN publishing : ~Qos0(publishing[x])}
                               |-> publishing[k]]
          /\ WaitingNow' = SelectSeq(WaitingNow, LAMBDA msg : ~Qos0(msg))
          /\ \A msg \in Range(publishing) \cup {WaitingNow[i] : i \in DOMAIN WaitingNow} :
                 (Qos0(msg) /\ msgs[msg].sync) =>
                     /\ msgs[msg].seqNr \in DOMAIN published'
                     /\ published'[msgs[msg].seqNr] = msg
                     /\ msgs'[msg].error # CELIX_SUCCESS]_vars

\* a publishSync call of thread t returns in this step without having been
\* admitted: the pool had no room for a LOW message when it was called or
\* when its wait for room ended
ReturnsUnadmitted(t) ==
    /\ pc[t] \in {"idle", "waitFree"}
    /\ pc'[t] = "idle"
    /\ ret'.caller = t
    /\ ~celix_earpmc_hasFreeMsgFor(Cur, CELIX_EARPMC_MSG_PRI_LOW)

C11_SyncMessageOutlivesWait ==
    \A t \in Threads : pc[t] = "waitPub" => msgs[tmsg[t]].topic = "live"

\* the number of places that hold block s: its entries on the waiting queue
\* and in the two maps, and the publishSync calls in progress on it
Holders(s) ==
    Cardinality({i \in DOMAIN WaitingNow : WaitingNow[i] = s})
    + Cardinality({k \in DOMAIN publishing : publishing[k] = s})
    + Cardinality({k \in DOMAIN published : published[k] = s})
    + Cardinality({t \in Threads : pc[t] = "waitPub" /\ tmsg[t] = s})

\* C12: between steps, the reference count of every live message is the
\* number of places that hold it, and the queue and the maps hold live
\* messages only.
C12_RefCountIsHolders ==
    \A s \in Slots :
        /\ msgs[s].topic = "live" => msgs[s].ref = Holders(s)
        /\ msgs[s].topic # "live" =>
               /\ ~InSeq(s, WaitingNow)
               /\ s \notin Range(publishing) \cup Range(published)

\* the number of messages in the publishing map
PublishingSize == Cardinality(DOMAIN publishing)

\* C13: the publishing map never holds more messages than the parallel
\* capacity; a step sends only on a connected client; a publish call made
\* while the map is at the capacity sends nothing; and a step that sent
\* several messages had room for each of them.
C13_PublishingWithinParallelCap ==
    [][/\ PublishingSize' <= parallelMsgCap
       /\ wire' # <<>> => connected'
       /\ (PublishingSize >= parallelMsgCap /\ ret'.caller # NoRet.caller)
              => wire' = <<>>
       /\ Cardinality({i \in DOMAIN wire' : wire'[i].rc}) <= parallelMsgCap]_vars

\* the publishing map is full, the client is connected and a message waits
C13_Witness ==
    /\ connected
    /\ PublishingSize = parallelMsgCap
    /\ WaitingNow # <<>>
    /\ faults = {}

\* after the step block s holds the message the step created, with this
\* QoS, and is on the waiting queue
Queued(s, qos) ==
    /\ InSeq(s, WaitingNow')
    /\ msgs'[s].topic = "live"
    /\ msgs'[s].qos = qos
    /\ msgs'[s].seqNr = nextSeqNr

\* C14: on a disconnected client a QoS-0 publish returns ENOTCONN and leaves
\* the pool, the queue and the maps as they were; a publish of a higher QoS
\* that is admitted is accepted and its message is on the waiting queue.
C14_DisconnectedPublish ==
    [][~connected =>
          /\ \A qos \in QosSet, pri \in PriSet, payload \in PayloadSet, rc \in BOOLEAN :
                 PublishAsync(qos, pri, payload, rc) =>
                     IF qos <= CELIX_EARPM_QOS_AT_MOST_ONCE
                     THEN ret'.status = StatusENOTCONN /\ Structures' = Structures
                     ELSE celix_earpmc_hasFreeMsgFor(Cur, pri) =>
                              /\ ret'.status = CELIX_SUCCESS
                              /\ \E s \in Slots : Queued(s, qos)
          /\ \A t \in Threads, qos \in QosSet, payload \in PayloadSet, rc \in BOOLEAN :
                 PublishSyncCall(t, qos, payload, rc) =>
                     IF qos <= CELIX_EARPM_QOS_AT_MOST_ONCE
                     THEN /\ ret'.status = StatusENOTCONN
                          /\ pc'[t] = "idle"
                          /\ Structures' = Structures
                     ELSE celix_earpmc_hasFreeMsgFor(Cur, CELIX_EARPMC_MSG_PRI_LOW) =>
                              /\ pc'[t] = "waitPub"
                              /\ Queued(tmsg'[t], qos)]_vars

\* C15: when subscribe is called on a connected client and the transport
\* refuses the subscribe, subscribe returns an error and the ledger is as
\* it was before the call: the topic has its previous QoS, or no entry if
\* it had none.
C15_SubscribeRollsBack ==
    [][\A topic \in TopicSet, qos \in QosSet :
          (connected /\ celix_earpmc_validateTopic(topic) /\ Subscribe(topic, qos, FALSE)) =>
              /\ ret'.status = CELIX_BUNDLE_EXCEPTION
              /\ subscriptions' = subscriptions
              /\ <<"subscribe", MqttTopic(topic)>> \in subWire']_vars

\* a subscribe of QoS 0 was refused by the transport for a topic subscribed
\* with QoS 1, and the ledger holds QoS 1
C15_Witness ==
    /\ connected
    /\ ret = [caller |-> SubscribeCaller, qos |-> CELIX_EARPM_QOS_AT_MOST_ONCE,
              status |-> CELIX_BUNDLE_EXCEPTION]
    /\ <<"a">> \in DOMAIN subscriptions
    /\ subscriptions[<<"a">>] = CELIX_EARPM_QOS_AT_LEAST_ONCE
    /\ subWire = {<<"subscribe", <<"a">>>>}

\* C16: when unsubscribe is called on a connected client and the transport
\* refuses the unsubscribe, the ledger is as it was before the call.
C16_UnsubscribeRollsBack ==
    [][\A topic \in TopicSet :
          (connected /\ celix_earpmc_validateTopic(topic) /\ Unsubscribe(topic, FALSE)) =>
              subscriptions' = subscriptions]_vars

\* C17: unsubscribe on a disconnected client leaves the sentinel QoS for the
\* topic, whatever entry it had; the next successful connect callback issues
\* an unsubscribe and no subscribe for every topic with the sentinel and
\* leaves no entry for it, and resubscribes and keeps every other topic.
C17_SentinelUnsubscribedOnConnect ==
    [][/\ \A topic \in TopicSet, rc \in BOOLEAN :
              (~connected /\ celix_earpmc_validateTopic(topic) /\ Unsubscribe(topic, rc)) =>
                  /\ ret'.status = CELIX_SUCCESS
                  /\ subscriptions' =
                         MapPut(subscriptions, MqttTopic(topic), CELIX_EARPM_QOS_UNKNOWN)
                  /\ subWire' = {}
       /\ (\E rcs \in RcSeqs : ConnectCallback(rcs)) =>
              \A topic \in DOMAIN subscriptions :
                  IF subscriptions[topic] = CELIX_EARPM_QOS_UNKNOWN
                  THEN /\ topic \notin DOMAIN subscriptions'
                       /\ <<"unsubscribe", topic>> \in subWire'
                       /\ <<"subscribe", topic>> \notin subWire'
                  ELSE /\ topic \in DOMAIN subscriptions'
                       /\ subscriptions'[topic] = subscriptions[topic]
                       /\ <<"subscribe", topic>> \in subWire']_vars

\* a connect callback has issued an unsubscribe for the topic and the ledger
\* has no entry for it
C17_Witness ==
    /\ connected
    /\ ret = NoRet
    /\ subWire = {<<"unsubscribe", <<"a">>>>}
    /\ subscriptions = EmptyMap

\* C18 as stated: unsubscribe of a topic that has no ledger entry returns
\* success and leaves the ledger as it was, connected or not.
C18_UnsubscribeUnknownIsNoOp ==
    [][\A topic \in TopicSet, rc \in BOOLEAN :
          (/\ celix_earpmc_validateTopic(topic)
           /\ MqttTopic(topic) \notin DOMAIN subscriptions
           /\ Unsubscribe(topic, rc)) =>
              /\ ret'.status = CELIX_SUCCESS
              /\ subscriptions' = subscriptions]_vars

\* C18 as amended: unsubscribe of a topic that has no ledger entry, or only
\* the sentinel, returns success on a disconnected client and leaves the
\* sentinel for the topic, so that a second call changes nothing; on a
\* connected client it leaves no entry for the topic, the ledger of a topic
\* without entry being as it was, and returns what the transport answers.
C18_UnsubscribeUnknownLeavesSentinel ==
    [][\A topic \in TopicSet, rc \in BOOLEAN :
          (/\ celix_earpmc_validateTopic(topic)
           /\ GetQos(Cur, MqttTopic(topic)) = CELIX_EARPM_QOS_UNKNOWN
           /\ Unsubscribe(topic, rc)) =>
              IF connected
              THEN /\ ret'.status = IF rc THEN CELIX_SUCCESS ELSE CELIX_BUNDLE_EXCEPTION
                   /\ subscriptions' = MapRemove(subscriptions, MqttTopic(topic))
              ELSE /\ ret'.status = CELIX_SUCCESS
                   /\ subscriptions' =
                          MapPut(subscriptions, MqttTopic(topic), CELIX_EARPM_QOS_UNKNOWN)
                   /\ (MqttTopic(topic) \in DOMAIN subscriptions
                          => subscriptions' = subscriptions)]_vars

\* unsubscribe was called twice in a row on a disconnected client for a
\* topic that had no entry: the ledger holds the sentinel for it
C18_Witness ==
    /\ ~connected
    /\ ret = [caller |-> UnsubscribeCaller, qos |-> CELIX_EARPM_QOS_UNKNOWN,
              status |-> CELIX_SUCCESS]
    /\ subscriptions = (<<"a">> :> CELIX_EARPM_QOS_UNKNOWN)

\* C19 as stated: the keys of the ledger are topics as the callers give
\* them: none ends in the multi-level wildcard of the protocol.
C19_KeysAreCallerTopics ==
    \A topic \in DOMAIN subscriptions : topic[Len(topic)] # "#"

\* C19 as amended: the keys of the ledger are the topics as transmitted: a
\* successful subscribe stores its topic with a trailing marker replaced by
\* the multi-level wildcard, what a step transmits is such a topic, and no
\* key ends in the marker.
C19_KeysAreTransmittedTopics ==
    [][/\ \A topic \in DOMAIN subscriptions' : topic[Len(topic)] # "*"
       /\ \A call \in subWire' : call[2][Len(call[2])] # "*"
       /\ \A topic \in TopicSet, qos \in QosSet, rc \in BOOLEAN :
              (celix_earpmc_validateTopic(topic) /\ Subscribe(topic, qos, rc)
               /\ ret'.status = CELIX_SUCCESS) =>
                  /\ MqttTopic(topic) \in DOMAIN subscriptions'
                  /\ subscriptions'[MqttTopic(topic)] = qos
                  /\ connected => <<"subscribe", MqttTopic(topic)>> \in subWire']_vars

\* the ledger holds a topic given with the trailing marker, stored with the
\* multi-level wildcard
C19_Witness ==
    /\ <<"a", "#">> \in DOMAIN subscriptions
    /\ <<"a", "*">> \notin DOMAIN subscriptions
    /\ ret.caller = SubscribeCaller
    /\ ret.status = CELIX_SUCCESS

\* C20: once destroy has cleared the running flag, forced the disconnect
\* and signalled the condition, the network thread exits and the join
\* returns, wherever the thread was at that moment.
C20_ThreadExitsAfterDestroy ==
    (mosq.dpc = "join") ~> (mosq.tpc = "exit" /\ mosq.dpc = "joined")

\* destroy signalled while the thread was inside the network loop, and the
\* join has returned
C20_Witness ==
    /\ mosq.dpc = "joined"
    /\ mosq.tpc = "exit"
    /\ mosq.seen = "loop"

\* C21: the network thread exits only once the running flag is cleared, and
\* a run of connectBroker that failed for every broker is followed by
\* another run, unless by then the running flag is cleared or the thread
\* waits for a broker because none is known.
C21_RetriesUntilShutdown ==
    /\ [](mosq.tpc = "exit" => ~running)
    /\ (mosq.tpc = "check" /\ ~mosq.rc)
           ~> \/ mosq.tpc = "connect"
              \/ ~running
              \/ mosq.tpc = "condWait" /\ mosq.brokers = {}

\* a run of connectBroker begins after MaxReconnect runs in a row have
\* failed, the last of them for a known broker
C21_Witness ==
    /\ mosq.tpc = "connect"
    /\ mosq.reconnectCount = MaxReconnect
    /\ mosq.reconnectDelay = 0
    /\ mosq.tried # <<>>
    /\ mosq.brokers # {}
    /\ running

\* C22: removing a broker changes nothing but the broker map - not the
\* connected flag, not a queue or map of messages, not the connection - and
\* a run of connectBroker that begins after the removal asks the transport
\* to connect to brokers of the map only, be it by mosquitto_reconnect or
\* by a connect to a broker of its copy of the map.
C22_RemovedBrokerNotChosen ==
    [][/\ (\E serviceId \in 1..NumBrokers : RemoveBrokerInfoService(serviceId)) =>
              /\ <<clientVars, running>>' = <<clientVars, running>>
              /\ mosq' = [mosq EXCEPT !.brokers = mosq'.brokers]
       /\ (mosq.tpc = "connect" /\ mosq'.tpc = "check") =>
              \A i \in DOMAIN mosq'.tried : mosq'.tried[i] \in mosq.brokers]_vars

\* the blocks the step handed to the transport's publish call, in order
SentSlots == [i \in DOMAIN wire' |-> wire'[i].slot]

\* C23: every message is handed to the transport's publish call at most
\* once: what a step hands over is a message the step created or one that
\* waited and was never handed over before, no message twice, none is left
\* on the waiting queue, and none comes from the publishing map - a
\* connect callback sends nothing of what stayed there over the disconnect.
C23_PublishedAtMostOnce ==
    [][\A i \in DOMAIN SentSlots :
          LET s == SentSlots[i] IN
          /\ \A j \in DOMAIN SentSlots : SentSlots[j] = s => j = i
          /\ \/ msgs[s].topic # "live" /\ nextSeqNr' = nextSeqNr + 1
             \/ /\ InSeq(s, WaitingNow)
                /\ msgs[s].topic = "live"
                /\ msgs[s].mqttMid = -1
          /\ s \notin Range(publishing)
          /\ ~InSeq(s, WaitingNow')]_vars

\* a publishAsync call that gets past the connection test is refused: the
\* pool has no room for a message of its priority
Refused(qos, pri) ==
    /\ ~(qos <= CELIX_EARPM_QOS_AT_MOST_ONCE /\ ~connected)
    /\ ~celix_earpmc_hasFreeMsgFor(Cur, pri)

\* the call is admitted and the allocation that fails is one it makes
AllocFails(qos, pri, fail) ==
    /\ ~(qos <= CELIX_EARPM_QOS_AT_MOST_ONCE /\ ~connected)
    /\ celix_earpmc_hasFreeMsgFor(Cur, pri)
    /\ \/ fail = "topic"
       \/ fail = "copy" /\ ~(connected /\ ~celix_earpmc_isPublishingQueueFull(Cur))

\* C24 as stated: a refused publish returns a status that is not the one a
\* failed allocation returns.
C24_RefusalHasOwnStatus ==
    [][\A qos \in QosSet, pri \in PriSet, rc \in BOOLEAN, fail \in AllocFailSet :
          (/\ ret'.caller = AsyncCaller
           /\ ret'.qos = qos
           /\ PublishAsyncAlloc(qos, pri, OnePayload, rc, fail)) =>
              /\ AllocFails(qos, pri, fail) => ret'.status = StatusENOMEM
              /\ Refused(qos, pri) => ret'.status # StatusENOMEM]_vars

\* C24 as amended: a refused publish and a publish whose allocation fails
\* both return ENOMEM; the refused one leaves the pool, the queue and the
\* maps as they were, the other leaves no message behind; the two differ
\* from the ENOTCONN of a QoS-0 publish on a disconnected client.
C24_RefusalReturnsNoMemory ==
    [][\A qos \in QosSet, pri \in PriSet, rc \in BOOLEAN, fail \in AllocFailSet :
          (/\ ret'.caller = AsyncCaller
           /\ ret'.qos = qos
           /\ PublishAsyncAlloc(qos, pri, OnePayload, rc, fail)) =>
              /\ AllocFails(qos, pri, fail) =>
                     /\ ret'.status = StatusENOMEM
                     /\ pool'.usedSize = pool.usedSize
                     /\ WaitingNow' = WaitingNow
                     /\ publishing' = publishing
                     /\ wire' = <<>>
              /\ Refused(qos, pri) =>
                     /\ ret'.status = StatusENOMEM
                     /\ Structures' = Structures
              /\ (qos <= CELIX_EARPM_QOS_AT_MOST_ONCE /\ ~connected) =>
                     ret'.status = StatusENOTCONN]_vars

\* a publishAsync call has returned ENOMEM with two of three blocks in use
\* by the only two messages ever created: it was refused
C24_Witness ==
    /\ ret.caller = AsyncCaller
    /\ ret.status = StatusENOMEM
    /\ pool.usedSize = 2
    /\ nextSeqNr = 2
    /\ faults = {}

\* C25: create returns no client and starts no network thread when the
\* message queue capacity or the parallel capacity is zero, negative or
\* above the maximum; otherwise the client it returns is disconnected and
\* running, its thread is started, its waiting queue, maps and ledger are
\* empty, and all blocks of the given capacity are free.
C25_CreateValidatesCapacities ==
    [][(opts.client = "pending" /\ opts'.client # "pending") =>
          IF \/ opts.msgQueueCap <= 0 \/ opts.msgQueueCap > CELIX_EARPM_MSG_QUEUE_MAX_SIZE
             \/ opts.parallelMsgCap <= 0
             \/ opts.parallelMsgCap > CELIX_EARPM_MSG_QUEUE_MAX_SIZE
          THEN /\ opts'.client = "NULL"
               /\ mosq'.tpc = "none"
               /\ ~running'
          ELSE /\ opts'.client = "client"
               /\ ~connected'
               /\ running'
               /\ mosq'.tpc = "start"
               /\ WaitingNow' = <<>>
               /\ publishing' = EmptyMap
               /\ published' = EmptyMap
               /\ subscriptions' = EmptyMap
               /\ pool'.usedSize = 0
               /\ pool'.cap = opts.msgQueueCap
               /\ Len(FreeNow') = opts.msgQueueCap
               /\ parallelMsgCap' = opts.parallelMsgCap]_vars

\* create was given a parallel capacity of zero with a valid message queue
\* capacity, and returned no client
C25_Witness ==
    /\ opts.client = "NULL"
    /\ opts.msgQueueCap = 1
    /\ opts.parallelMsgCap = 0
    /\ mosq.tpc = "none"

\* C26: a successful connect callback sets the connected flag, then runs
\* the resubscription pass, then drains the waiting queue, then releases
\* the lock, then broadcasts, and then calls the connected notification,
\* without the lock; a connect callback with a failure code changes nothing
\* of the client and calls no notification.
C26_ConnectCallbackOrder ==
    /\ [](\E n \in 0..6 :
             mosq.cbLog = SubSeq(<<"connected", "resubscribe", "drain", "unlock",
                                   "broadcast", "notify">>, 1, n))
    /\ [][/\ (Len(mosq'.cbLog) = 1 /\ mosq.cbLog = <<>>) =>
                 /\ ~connected /\ connected'
                 /\ UNCHANGED <<subscriptions, waiting, publishing>>
          /\ (Len(mosq'.cbLog) = 2 /\ Len(mosq.cbLog) = 1) =>
                 /\ connected
                 /\ \A t \in DOMAIN subscriptions :
                        IF subscriptions[t] > CELIX_EARPM_QOS_UNKNOWN
                        THEN /\ <<"subscribe", t>> \in subWire'
                             /\ t \in DOMAIN subscriptions'
                        ELSE /\ <<"unsubscribe", t>> \in subWire'
                             /\ t \notin DOMAIN subscriptions'
                 /\ UNCHANGED <<waiting, publishing>>
          /\ (Len(mosq'.cbLog) = 3 /\ Len(mosq.cbLog) = 2) =>
                 /\ WaitingNow' = <<>> \/ Cardinality(DOMAIN publishing') >= parallelMsgCap
                 /\ UNCHANGED subscriptions
                 /\ mosq.held
          /\ (Len(mosq'.cbLog) = 6 /\ Len(mosq.cbLog) = 5) =>
                 /\ ~mosq.held /\ ~mosq'.held
          /\ (mosq.cb = "idle" /\ mosq'.cbRc # MQTT_RC_SUCCESS /\ mosq'.cbRc # mosq.cbRc) =>
                 /\ UNCHANGED <<pool, msgs, waiting, publishing, published, subscriptions,
                                connected, running, nextSeqNr, lastMid, unacked>>
                 /\ wire' = <<>>
                 /\ subWire' = {}
                 /\ mosq'.cbLog = mosq.cbLog
                 /\ mosq'.cb = "idle"]_vars

\* a successful connect callback has resubscribed, sent a waiting message
\* and called the notification
C26_Witness ==
    /\ mosq.cbLog = <<"connected", "resubscribe", "drain", "unlock", "broadcast", "notify">>
    /\ mosq.cb = "idle"
    /\ DOMAIN publishing # {}
    /\ DOMAIN subscriptions # {}

\* C27: a publish acknowledgement for a mid of the publishing map removes
\* the message from that map; a synchronous message is then in the
\* published map under its sequence number, with success when the reason
\* code is success or no-matching-subscribers and with a failure otherwise;
\* an asynchronous message's block is back in the pool; the waiting queue
\* has been drained and msgStatusChanged is broadcast.
C27_AckCompletesMessage ==
    [][\A mid \in unacked \cap DOMAIN publishing, reasonCode \in ReasonSet :
          (unacked' = unacked \ {mid} /\ \E rcs \in RcSeqs : PublishCallback(mid, reasonCode, rcs)) =>
              LET msg == publishing[mid] IN
              /\ mid \notin DOMAIN publishing'
              /\ msgs[msg].sync =>
                     /\ msgs[msg].seqNr \in DOMAIN published'
                     /\ published'[msgs[msg].seqNr] = msg
                     /\ msgs'[msg].error =
                            IF reasonCode \in {MQTT_RC_SUCCESS, MQTT_RC_NO_MATCHING_SUBSCRIBERS}
                            THEN CELIX_SUCCESS ELSE CELIX_ILLEGAL_STATE
              /\ ~msgs[msg].sync => \E i \in DOMAIN FreeNow' : FreeNow'[i] = msg
              /\ WaitingNow' = <<>> \/ Cardinality(DOMAIN publishing') >= parallelMsgCap
              /\ \A rcs \in RcSeqs : PublishAckBody(Cur, mid, reasonCode, rcs).bcast]_vars

\* C28: a message the drain of a connect or publish callback has popped
\* and the transport has refused is afterwards neither on the waiting
\* queue nor in the publishing map; a synchronous one is in the published
\* map with the failure, an asynchronous one is back in the pool; and the
\* drain has gone on to the messages behind it.
C28_RefusedInDrainIsCompleted ==
    [][(\/ ~connected /\ connected' /\ \E rcs \in RcSeqs : ConnectCallback(rcs)
        \/ \E mid \in unacked :
               /\ mid \notin unacked'
               /\ \E reasonCode \in ReasonSet, rcs \in RcSeqs :
                      PublishCallback(mid, reasonCode, rcs)) =>
          \A i \in DOMAIN wire' :
              ~wire'[i].rc =>
                  LET msg == wire'[i].slot IN
                  /\ \A j \in DOMAIN WaitingNow' : WaitingNow'[j] # msg
                  /\ \A mid \in DOMAIN publishing' : publishing'[mid] # msg
                  /\ msgs[msg].sync =>
                         /\ msgs[msg].seqNr \in DOMAIN published'
                         /\ published'[msgs[msg].seqNr] = msg
                         /\ msgs'[msg].error = CELIX_BUNDLE_EXCEPTION
                  /\ ~msgs[msg].sync => \E j \in DOMAIN FreeNow' : FreeNow'[j] = msg
                  /\ WaitingNow' = <<>> \/ Cardinality(DOMAIN publishing') >= parallelMsgCap]_vars

\* the step is one of a call or callback that broadcasts msgStatusChanged
StepBroadcasts ==
    \/ \E t \in Threads, rc \in BOOLEAN :
           /\ PublishSyncCall(t, CELIX_EARPM_QOS_AT_LEAST_ONCE, OnePayload, rc)
           /\ SyncBody(Cur, CELIX_EARPM_QOS_AT_LEAST_ONCE, OnePayload, rc).c.bcast
    \/ \E rc \in BOOLEAN :
           /\ PublishAsync(CELIX_EARPM_QOS_AT_LEAST_ONCE, CELIX_EARPMC_MSG_PRI_HIGH,
                           OnePayload, rc)
           /\ AsyncBody(Cur, CELIX_EARPM_QOS_AT_LEAST_ONCE, CELIX_EARPMC_MSG_PRI_HIGH,
                        OnePayload, rc).c.bcast
    \/ \E t \in Threads, rc \in BOOLEAN :
           /\ PublishSyncFreeWake(t, rc)
           /\ SyncAdmit(Cur, targ[t].qos, targ[t].payload, rc).c.bcast
    \/ \E t \in Threads : PublishSyncWake(t) /\ SyncAwait(Cur, tmsg[t]).c.bcast
    \/ \E t \in Threads : PublishSyncTimeout(t) /\ SyncTimeout(Cur, tmsg[t]).c.bcast
    \/ \E rcs \in RcSeqs : ConnectCallback(rcs) /\ ConnectBody(Cur, rcs).bcast
    \/ \E ord \in Orders(DOMAIN publishing) :
           DisconnectCallback(ord) /\ DisconnectBody(Cur, ord).bcast
    \/ \E mid \in unacked, reasonCode \in ReasonSet, rcs \in RcSeqs :
           /\ PublishCallback(mid, reasonCode, rcs)
           /\ PublishAckBody(Cur, mid, reasonCode, rcs).bcast

\* C29: a step that releases a message and thereby makes room for a LOW
\* message, while a publishSync caller is blocked waiting for room,
\* broadcasts msgStatusChanged; also when the release is the one of
\* another publishSync caller that takes its outcome.
C29_ReleaseBroadcasts ==
    [][(/\ \E u \in Threads : pc[u] = "waitFree" /\ pc'[u] = "waitFree"
        /\ pool'.usedSize < pool.usedSize
        /\ ~HasFreeMsgFor(pool.usedSize, pool.cap, CELIX_EARPMC_MSG_PRI_LOW)
        /\ HasFreeMsgFor(pool'.usedSize, pool'.cap, CELIX_EARPMC_MSG_PRI_LOW))
       => StepBroadcasts]_vars

\* the blocks of the messages the transport refused in this step
RefusedNow == {wire'[i].slot : i \in {j \in DOMAIN wire' : ~wire'[j].rc}}

\* C30: a publish acknowledgement whose mid is not in the publishing map
\* removes nothing from the publishing map, leaves every entry of the
\* published map and its outcome as they were, and releases no block; what
\* changes is the work of its drain (a refused waiting message is recorded
\* or released), and with an empty waiting queue nothing changes at all.
C30_LateAckOnlyDrains ==
    [][(\E mid \in unacked \ DOMAIN publishing :
           /\ mid \notin unacked'
           /\ \E reasonCode \in ReasonSet, rcs \in RcSeqs :
                  PublishCallback(mid, reasonCode, rcs)) =>
          /\ \A m \in DOMAIN publishing :
                 m \in DOMAIN publishing' /\ publishing'[m] = publishing[m]
          /\ \A k \in DOMAIN published :
                 /\ k \in DOMAIN published'
                 /\ published'[k] = published[k]
                 /\ msgs'[published[k]].error = msgs[published[k]].error
          /\ \A k \in DOMAIN published' \ DOMAIN published : published'[k] \in RefusedNow
          /\ \A i \in DOMAIN FreeNow' :
                 (\A j \in DOMAIN FreeNow : FreeNow[j] # FreeNow'[i]) =>
                     FreeNow'[i] \in RefusedNow
          /\ pool'.usedSize >= pool.usedSize - Cardinality(RefusedNow)
          /\ WaitingNow = <<>> => UNCHANGED <<pool, msgs, waiting, publishing, published>>]_vars

C32_TopicValidation ==
    \A topic \in TopicArgs :
        LET subscribed == {SubscribeBody(Cur, topic, qos, rc) : qos \in QosSet, rc \in BOOLEAN}
            unsubscribed == {UnsubscribeBody(Cur, topic, rc) : rc \in BOOLEAN}
        IN  /\ (\/ Len(topic) = 0
                \/ Len(topic) > 1024
                \/ \E i \in DOMAIN topic : topic[i] \in {"#", "+", "$"}) =>
                   \A r \in subscribed \cup unsubscribed :
                       /\ r.status = CELIX_ILLEGAL_ARGUMENT
                       /\ r.c.subWire = {}
                       /\ r.c.subscriptions = subscriptions
            /\ (/\ Len(topic) \in 1..1024
                /\ \A i \in DOMAIN topic : topic[i] \notin {"#", "+", "$"}) =>
                   \A r \in subscribed \cup unsubscribed :
                       r.status # CELIX_ILLEGAL_ARGUMENT

\* a subscribe was refused for its topic on a connected client with a
\* subscription for the longest valid topic
C32_Witness ==
    /\ ret.caller = SubscribeCaller
    /\ ret.status = CELIX_ILLEGAL_ARGUMENT
    /\ connected
    /\ LongTopic(1024) \in DOMAIN subscriptions
    /\ <<"a", "#">> \in DOMAIN subscriptions

\* C33: reconnectCount counts the failed rounds since the thread started
\* or since the last successful one (only a round changes it: a failed one
\* adds 1, a successful one sets it to 0), and the delay a failed round
\* sets is the smaller of that count and 30; so the first failure after a
\* success sets a delay of 1.
C33_DelayIsMinOfFailuresAnd30 ==
    /\ [](mosq.tpc = "start" => mosq.reconnectCount = 0)
    /\ [][IF mosq.tpc = "connect" /\ mosq'.tpc = "check"
          THEN IF mosq'.rc
               THEN mosq'.reconnectCount = 0
               ELSE /\ mosq.reconnectCount < MaxReconnect =>
                           mosq'.reconnectCount = mosq.reconnectCount + 1
                    /\ mosq'.reconnectDelay =
                           IF mosq'.reconnectCount < 30 THEN mosq'.reconnectCount ELSE 30
          ELSE mosq'.reconnectCount = mosq.reconnectCount]_vars

\* the first failed round after a successful one has set a delay of 1
C33_Witness ==
    /\ mosq.tpc = "check"
    /\ ~mosq.rc
    /\ mosq.using \in mosq.brokers
    /\ mosq.reconnectCount = 1
    /\ mosq.reconnectDelay = 1

C35_ClearedFlagSeenAfterAttempt ==
    /\ [][(mosq.tpc \in {"connect", "check"} /\ ~running) =>
              mosq'.tpc \in {"connect", "check", "exit"}]_vars
    /\ [][(mosq.tpc = "check" /\ mosq'.tpc # "check") =>
              mosq'.tpc = IF running THEN "loop" ELSE "exit"]_vars
    /\ ((mosq.tpc \in {"connect", "check"} /\ ~running) ~> (mosq.tpc = "exit"))

\* the flag was cleared during an attempt that succeeded, and the thread
\* has exited from the check, the connection still up
C35_Witness ==
    /\ mosq.tpc = "exit"
    /\ mosq.rc
    /\ mosq.link = "up"
    /\ ~running
    /\ mosq.dpc = "disconnect"

\* C36: a publishSync call whose wait for the outcome fails removes only
\* its own message: every other message that was on the waiting queue is
\* still on it, every entry of the publishing map and of the published
\* map that holds another message is still there, and the recorded
\* outcomes are unchanged.
C36_TimeoutRemovesOnlyOwnMessage ==
    [][\A t \in Threads :
          (/\ pc[t] = "waitPub" /\ pc'[t] = "idle"
           /\ ret'.caller = t /\ ret'.status = StatusETIMEDOUT) =>
              LET msg == tmsg[t] IN
              /\ \A i \in DOMAIN WaitingNow :
                     WaitingNow[i] # msg => \E j \in DOMAIN WaitingNow' :
                                                WaitingNow'[j] = WaitingNow[i]
              /\ \A mid \in DOMAIN publishing :
                     publishing[mid] # msg =>
                         mid \in DOMAIN publishing' /\ publishing'[mid] = publishing[mid]
              /\ \A seqNr \in DOMAIN published :
                     published[seqNr] # msg =>
                         /\ seqNr \in DOMAIN published'
                         /\ published'[seqNr] = published[seqNr]
                         /\ msgs'[published[seqNr]].error = msgs[published[seqNr]].error]_vars

\* The messages that are live: blocks of the pool that hold a reference.
LiveNow == {s \in Slots : msgs[s].ref > 0}

\* C37: whenever the lock is free, each live message is in at most one of
\* the waiting queue, the publishing map and the published map; a message
\* on the waiting queue has transport id -1; every publishing-map entry is
\* keyed by its message's transport id; every published-map entry is keyed
\* by its message's sequence number; and the sequence numbers of the live
\* messages are pairwise distinct.
C37_MessagePlacement ==
    /\ \A s \in LiveNow :
           LET inWaiting == \E i \in DOMAIN WaitingNow : WaitingNow[i] = s
               inPublishing == \E mid \in DOMAIN publishing : publishing[mid] = s
               inPublished == \E seqNr \in DOMAIN published : published[seqNr] = s
           IN  /\ ~(inWaiting /\ inPublishing)
               /\ ~(inWaiting /\ inPublished)
               /\ ~(inPublishing /\ inPublished)
    /\ \A i \in DOMAIN WaitingNow :
           WaitingNow[i] \in LiveNow => msgs[WaitingNow[i]].mqttMid = -1
    /\ \A mid \in DOMAIN publishing :
           publishing[mid] \in LiveNow => msgs[publishing[mid]].mqttMid = mid
    /\ \A seqNr \in DOMAIN published :
           published[seqNr] \in LiveNow => msgs[published[seqNr]].seqNr = seqNr
    /\ \A s1, s2 \in LiveNow : s1 # s2 => msgs[s1].seqNr # msgs[s2].seqNr

\* C38: whenever the lock is free and the client is connected, a non-empty
\* waiting queue implies that the publishing map is at the parallel-publish
\* cap: no waiting message sits idle while an in-flight slot is free.
\* Stated for the states that no stale unlink has corrupted, so that the
\* waiting queue read here is the queue the code built.
C38_NoIdleWaitingMessage ==
    (faults = {} /\ connected /\ WaitingNow # <<>>) =>
        Cardinality(DOMAIN publishing) >= parallelMsgCap

\* C39: a publish call never hands its new message to the transport while
\* a message of the same or a higher priority, accepted earlier, is still
\* on the waiting queue. A step that created a message (it drew a sequence
\* number) and whose first send the transport accepted is a direct send of
\* that message; it is looked at in the states that no stale unlink has
\* corrupted.
C39_DirectSendNeverOvertakes ==
    [][(/\ nextSeqNr' = nextSeqNr + 1
        /\ faults = {}
        /\ wire' # <<>>
        /\ wire'[1].rc
        /\ msgs'[wire'[1].slot].topic = "live") =>
           \A i \in DOMAIN WaitingNow :
               msgs[WaitingNow[i]].pri < msgs'[wire'[1].slot].pri]_vars

\* the topics of the ledger marked with the sentinel QoS
SentinelNow == {t \in DOMAIN subscriptions : subscriptions[t] = CELIX_EARPM_QOS_UNKNOWN}

\* C40: whenever the lock is free and the connected flag is set, no entry
\* of the subscription ledger carries the sentinel QoS.
C40_NoSentinelWhileConnected ==
    (connected /\ ~mosq.held) => SentinelNow = {}

\* a connect callback has just unsubscribed a topic that was marked with
\* the sentinel and dropped its entry, next to a topic it resubscribed
C40_Witness ==
    /\ connected /\ ~mosq.held
    /\ ret = NoRet
    /\ \E t1, t2 \in TopicSet :
           /\ <<"unsubscribe", t1>> \in subWire /\ t1 \notin DOMAIN subscriptions
           /\ <<"subscribe", t2>> \in subWire /\ t2 \in DOMAIN subscriptions

====
